---------------------------- MODULE Spec2Model ----------------------------
(***************************************************************************)
(* A model of RIVET's bigraded linear-algebra core:                        *)
(*   - the lazy-heap column store  (phat_mod/.../vector_heap_mod.h),       *)
(*   - the lex -> colex construction of a BigradedMatrix and the bigraded  *)
(*     kernel computation             (math/bigraded_matrix.cpp).          *)
(*   - the permuted matrices: the linked-list MapMatrix_Perm with its      *)
(*     decompose_RU (math/map_matrix.cpp) and the lazy-heap                *)
(*     vector_heap_perm (phat_mod/.../vector_heap_mod.h).                  *)
(* Columns are raw vectors of row indices (Seq(Int), slot k of the C++     *)
(* vector is element k+1 of the sequence).  A row belongs to the logical   *)
(* column iff it occurs an odd number of times in the raw vector.          *)
(***************************************************************************)
EXTENDS Integers, Sequences, FiniteSets, TLC

(***************************************************************************)
(* Bounds of the model.                                                    *)
(***************************************************************************)
\* lazy-heap store: number of columns, number of rows, and the cap on raw
\* entries (on the whole store for the calls that insert one entry, on the
\* target column for the column additions)
NumColsH == 2
NumRowsH == 6
MaxRaw == 3

\* bigraded matrices: the bigrade grid (ind.width() x ind.height()), and the
\* largest input of kernel(): rows, columns, rows x columns, non-zero entries
GridW == 2
GridH == 2
MaxRowsK == 3
MaxColsK == 4
MaxCells == 9
MaxEntries == 5

\* permuted matrices: rows, columns, and the number of set() calls that
\* build a linked-list matrix
NumRowsP == 4
NumColsP == 3
MaxSetCalls == 4
MaxCallsP == 3

\* the number of elements at which a raw vector can grow no further and
\* push_back throws
MaxSize == 5

\* the fast path of the reduction: the length of the raw columns it starts
\* from
MaxLenF == 3

\* the linked-list store: the number of set, clear and add_column calls on a
\* matrix that has been built
MaxCallsB == 2

\* column moves: the columns of the store, the columns of the other store,
\* and the length of their raw columns
NumColsM == 3
NumColsOther == 2
MaxLenM == 2

VARIABLES
    \* ---- vector_heap_mod under test ----
    matrix,                     \* std::vector<column> matrix
    inserts_since_last_prune,   \* std::vector<index> inserts_since_last_prune
    ret,                        \* <<v>>: the last call returned v; <<>>: void
    last,                       \* the last call: [op, idx, src]
    pre,                        \* matrix as it was when that call started
    preIns,                     \* inserts_since_last_prune at that moment
    \* ---- BigradedMatrix: kernel() and the constructor from a lex matrix ----
    pc,                 \* "off", "col", "while", "convert", "done"
    num_rows,           \* mat.height()
    mat,                \* this->mat, a store [matrix, inserts]
    ind,                \* this->ind
    reduction_matrix,   \* the slave of kernel()
    lex_mat,            \* ker_lex of kernel(), lex_mat of the constructor:
                        \* [mat, ind, rows]
    lows,               \* lows of kernel()
    curr_x, curr_y,     \* the bigrade kernel() is at
    j, l, changing_column,      \* locals of kernel_one_bigrade
    at,                 \* the constructor's position in its (y, x) loops
    current_index,      \* local of the constructor
    result,             \* the BigradedMatrix being constructed: [mat, ind, rows]
    orig,               \* history: the columns of mat when kernel() was called
    lex0,               \* history: lex_mat when the constructor was called
    appended,           \* history: how often slave column c went to ker_lex
    moved,              \* history: how often column c of lex_mat was moved
    \* ---- the permuted matrices: MapMatrix_Perm and vector_heap_perm ----
    perm,               \* std::vector<unsigned> perm
    mrep,               \* std::vector<unsigned> mrep
    columns,            \* MapMatrix_Base::columns: linked lists of rows
    low_col,            \* MapMatrix_Perm::low_col
    U,                  \* the columns of the matrix decompose_RU returned
    err,                \* what the last call threw: "" if it returned
    was,                \* history: [perm, mrep, columns, low_col] at the start
                        \* of the last call
    \* ---- the embedding application ----
    should_continue     \* what its cancellation callback answers when asked

heapVars == <<matrix, inserts_since_last_prune, ret, last, pre, preIns>>

permVars == <<perm, mrep, columns, low_col, U, err, was>>

kerVars == <<pc, num_rows, mat, ind, reduction_matrix, lex_mat, lows, curr_x,
             curr_y, j, l, changing_column, at, current_index, result, orig,
             lex0, appended, moved>>

vars == <<matrix, inserts_since_last_prune, ret, last, pre, preIns,
          pc, num_rows, mat, ind, reduction_matrix, lex_mat, lows, curr_x,
          curr_y, j, l, changing_column, at, current_index, result, orig,
          lex0, appended, moved, perm, mrep, columns, low_col, U, err, was,
          should_continue>>

(***************************************************************************)
(* Generic helpers.                                                        *)
(***************************************************************************)
Range(s) == {s[k] : k \in DOMAIN s}

Count(s, v) == Cardinality({k \in DOMAIN s : s[k] = v})

\* the logical column of a raw vector: the row indices of odd multiplicity
OddRows(s) == {v \in Range(s) : v >= 0 /\ Count(s, v) % 2 = 1}

MaxOf(S) == IF S = {} THEN -1 ELSE CHOOSE m \in S : \A v \in S : v <= m

Reverse(s) == [k \in 1..Len(s) |-> s[Len(s) + 1 - k]]

\* max-heap order of a raw vector under operator<
IsHeap(s) == \A k \in 2..Len(s) : s[k] <= s[k \div 2]

NoDup(s) == \A a, b \in DOMAIN s : a # b => s[a] # s[b]

\* the elements of a finite set of integers as an ascending sequence
RECURSIVE Ascending(_)
Ascending(S) ==
    IF S = {} THEN <<>>
    ELSE LET m == MaxOf(S) IN Append(Ascending(S \ {m}), m)

(***************************************************************************)
(* The binary-heap algorithms of the standard library, as called by the    *)
(* column store (0-based hole indices as in the library).                  *)
(***************************************************************************)
RECURSIVE push_heap_at(_, _, _, _)
push_heap_at(a, hole, top, value) ==
    IF hole > top /\ a[((hole - 1) \div 2) + 1] < value
    THEN push_heap_at([a EXCEPT ![hole + 1] = a[((hole - 1) \div 2) + 1]],
                      (hole - 1) \div 2, top, value)
    ELSE [a EXCEPT ![hole + 1] = value]

\* std::push_heap(begin, end): the last element is sifted up
push_heap(a) ==
    IF Len(a) = 0 THEN a ELSE push_heap_at(a, Len(a) - 1, 0, a[Len(a)])

RECURSIVE adjust_down(_, _, _, _)
\* the descent of the hole to a leaf; yields <<vector, hole, secondChild>>
adjust_down(a, hole, child, len) ==
    IF child < (len - 1) \div 2
    THEN LET c2 == 2 * (child + 1)
             c  == IF a[c2 + 1] < a[c2] THEN c2 - 1 ELSE c2
         IN adjust_down([a EXCEPT ![hole + 1] = a[c + 1]], c, c, len)
    ELSE <<a, hole, child>>

adjust_heap(a, holeIndex, len, value) ==
    LET d  == adjust_down(a, holeIndex, holeIndex, len)
        a1 == d[1]
        h1 == d[2]
        c1 == d[3]
        lone == len % 2 = 0 /\ c1 = (len - 2) \div 2
        a2 == IF lone THEN [a1 EXCEPT ![h1 + 1] = a1[2 * (c1 + 1)]] ELSE a1
        h2 == IF lone THEN 2 * (c1 + 1) - 1 ELSE h1
    IN push_heap_at(a2, h2, holeIndex, value)

\* std::pop_heap(begin, end) followed by pop_back()
pop_heap_back(a) ==
    IF Len(a) <= 1 THEN <<>>
    ELSE adjust_heap(SubSeq(a, 1, Len(a) - 1), 0, Len(a) - 1, a[Len(a)])

RECURSIVE make_heap_from(_, _)
make_heap_from(a, parent) ==
    LET b == adjust_heap(a, parent, Len(a), a[parent + 1])
    IN IF parent = 0 THEN b ELSE make_heap_from(b, parent - 1)

\* std::make_heap(begin, end)
make_heap(a) ==
    IF Len(a) < 2 THEN a ELSE make_heap_from(a, (Len(a) - 2) \div 2)

(***************************************************************************)
(* vector_heap_mod: the operations on one raw column.                      *)
(***************************************************************************)
RECURSIVE pop_max_loop(_, _)
pop_max_loop(col, max_element) ==
    IF Len(col) > 0 /\ col[1] = max_element
    THEN LET c1 == pop_heap_back(col)
         IN IF Len(c1) = 0 THEN [col |-> c1, ret |-> -1]
            ELSE pop_max_loop(pop_heap_back(c1), c1[1])
    ELSE [col |-> col, ret |-> max_element]

\* _pop_max_index(column&): pops the largest entry of odd multiplicity
pop_max_index(col) ==
    IF Len(col) = 0 THEN [col |-> col, ret |-> -1]
    ELSE pop_max_loop(pop_heap_back(col), col[1])

RECURSIVE drain(_, _)
\* the while loop of _prune: the values popped until -1, in popping order
drain(col, temp_col) ==
    LET r == pop_max_index(col)
    IN IF r.ret = -1 THEN temp_col ELSE drain(r.col, Append(temp_col, r.ret))

\* prune as it would be if the duplicates were kept
prune_keeps_duplicates(col) == make_heap(col)

\* prune as it would be without the closing make_heap
prune_without_make_heap(col) == Reverse(drain(col, <<>>))

\* _prune(idx), the new raw column
prune(col) == make_heap(Reverse(drain(col, <<>>)))

\* get_max_index as it would be if it read the front of the heap
get_max_index_reads_front(col) ==
    [col |-> col, ret |-> IF Len(col) = 0 THEN -1 ELSE col[1]]

\* _get_max_index(idx): pops the pivot and pushes the popped value back
get_max_index(col) ==
    LET r == pop_max_index(col)
    IN [col |-> push_heap(Append(r.col, r.ret)), ret |-> r.ret]

\* _get_max_index_finalized(idx)
get_max_index_finalized(col) == IF Len(col) = 0 THEN -1 ELSE col[1]

\* push_index as it would be if the entry were dropped
push_index_loses_entry(col, entry) == col

\* _push_index(col_idx, entry)
push_index(col, entry) == push_heap(Append(col, entry))

RECURSIVE push_all(_, _, _)
\* the for loop of _add_to / _add_to_popped, from slot `from' of the source
push_all(tgt, src, from) ==
    IF from > Len(src) THEN tgt
    ELSE push_all(push_heap(Append(tgt, src[from])), src, from + 1)

\* add_to as it would be if the loop started at slot 1 of the source
add_to_skips_first(src, tgt, ins) ==
    LET t1 == push_all(tgt, src, 2)
        i1 == ins + Len(src)
    IN IF 2 * i1 > Len(t1) THEN [col |-> make_heap(Reverse(drain(t1, <<>>))), ins |-> 0]
       ELSE [col |-> t1, ins |-> i1]

\* add_to as it would be if the counter grew by one for every call
add_to_counts_calls(src, tgt, ins) ==
    LET t1 == push_all(tgt, src, 1)
        i1 == ins + 1
    IN IF 2 * i1 > Len(t1) THEN [col |-> prune(t1), ins |-> 0]
       ELSE [col |-> t1, ins |-> i1]

\* _add_to(source, target): the new target column and its insert counter
add_to(src, tgt, ins) ==
    LET t1 == push_all(tgt, src, 1)
        i1 == ins + Len(src)
    IN IF 2 * i1 > Len(t1) THEN [col |-> prune(t1), ins |-> 0]
       ELSE [col |-> t1, ins |-> i1]

\* add_to_popped as it would be if the loop started at slot 0 of the source
add_to_popped_keeps_pivot(src, tgt, ins) ==
    LET t1 == push_all(tgt, src, 1)
        i1 == ins + Len(src) - 1
    IN IF 2 * i1 > Len(t1) THEN [col |-> prune(t1), ins |-> 0]
       ELSE [col |-> t1, ins |-> i1]

\* _add_to_popped(source, target)
add_to_popped(src, tgt, ins) ==
    LET t1 == push_all(tgt, src, 2)
        i1 == ins + Len(src) - 1
    IN IF 2 * i1 > Len(t1) THEN [col |-> prune(t1), ins |-> 0]
       ELSE [col |-> t1, ins |-> i1]

(***************************************************************************)
(* The lazy-heap store as a state machine.  last, pre and preIns are       *)
(* history variables: for finalize, pivot, remove_pivot and add_to they    *)
(* hold the call and the store as it was when the call started; the calls  *)
(* that only build a column (set_entry, heapify_col) keep no history.      *)
(***************************************************************************)
ColsH == 0..(NumColsH - 1)
RowsH == 0..(NumRowsH - 1)

RawTotal(m) == LET RECURSIVE Sum(_)
                   Sum(k) == IF k < 0 THEN 0 ELSE Len(m[k]) + Sum(k - 1)
               IN Sum(NumColsH - 1)

Call(op, idx, src) == [op |-> op, idx |-> idx, src |-> src]

Remember(op, idx, src) ==
    /\ last' = Call(op, idx, src)
    /\ pre' = matrix
    /\ preIns' = inserts_since_last_prune
    /\ UNCHANGED <<kerVars, permVars, should_continue>>

Forget ==
    /\ last' = Call("build", -1, -1)
    /\ pre' = matrix'
    /\ preIns' = inserts_since_last_prune'
    /\ UNCHANGED <<kerVars, permVars, should_continue>>

\* no permuted matrix is in use
NoPermuted ==
    /\ perm = <<>> /\ mrep = <<>> /\ columns = <<>> /\ low_col = <<>>
    /\ U = <<>> /\ err = "" /\ was = <<>>

\* no bigraded matrix is in use
NoBigraded ==
    /\ pc = "off"
    /\ num_rows = 0
    /\ mat = <<>> /\ ind = <<>> /\ reduction_matrix = <<>> /\ lex_mat = <<>>
    /\ lows = <<>>
    /\ curr_x = 0 /\ curr_y = 0 /\ j = 0 /\ l = -1
    /\ changing_column = FALSE
    /\ at = 0 /\ current_index = 0
    /\ result = <<>> /\ orig = <<>> /\ lex0 = <<>>
    /\ appended = <<>> /\ moved = <<>>
    /\ should_continue = TRUE

InitHeap ==
    /\ matrix = [c \in ColsH |-> <<>>]
    /\ inserts_since_last_prune = [c \in ColsH |-> 0]
    /\ ret = <<>>
    /\ last = Call("build", -1, -1)
    /\ pre = matrix
    /\ preIns = inserts_since_last_prune
    /\ NoBigraded
    /\ NoPermuted

\* _set_entry(row, col): a bare push_back
set_entry(row, col) ==
    /\ RawTotal(matrix) < MaxRaw
    /\ matrix' = [matrix EXCEPT ![col] = Append(@, row)]
    /\ ret' = <<>>
    /\ UNCHANGED inserts_since_last_prune
    /\ Forget

\* _heapify_col(idx)
heapify_col(idx) ==
    /\ matrix' = [matrix EXCEPT ![idx] = make_heap(@)]
    /\ ret' = <<>>
    /\ UNCHANGED inserts_since_last_prune
    /\ Forget

\* _finalize(idx); std::pop_heap requires a heap-ordered range
finalize(idx) ==
    /\ IsHeap(matrix[idx])
    /\ matrix' = [matrix EXCEPT ![idx] = prune(@)]
    /\ inserts_since_last_prune' = [inserts_since_last_prune EXCEPT ![idx] = 0]
    /\ ret' = <<>>
    /\ Remember("finalize", idx, -1)

\* _get_max_index(idx), the pivot query
pivot(idx) ==
    /\ IsHeap(matrix[idx])
    /\ Len(matrix[idx]) > 0 \/ RawTotal(matrix) < MaxRaw
    /\ LET r == get_max_index(matrix[idx])
       IN /\ matrix' = [matrix EXCEPT ![idx] = r.col]
          /\ ret' = <<r.ret>>
    /\ UNCHANGED inserts_since_last_prune
    /\ Remember("pivot", idx, -1)

\* _remove_max(idx)
remove_pivot(idx) ==
    /\ IsHeap(matrix[idx])
    /\ LET r == pop_max_index(matrix[idx])
       IN /\ matrix' = [matrix EXCEPT ![idx] = r.col]
          /\ ret' = <<r.ret>>
    /\ UNCHANGED inserts_since_last_prune
    /\ Remember("remove_pivot", idx, -1)

\* _add_to(source, target) on two different columns
add(src, tgt) ==
    /\ src # tgt
    /\ IsHeap(matrix[tgt])
    /\ LET r == add_to(matrix[src], matrix[tgt], inserts_since_last_prune[tgt])
       IN /\ Len(r.col) <= MaxRaw
          /\ matrix' = [matrix EXCEPT ![tgt] = r.col]
          /\ inserts_since_last_prune' =
                 [inserts_since_last_prune EXCEPT ![tgt] = r.ins]
    /\ ret' = <<>>
    /\ Remember("add_to", tgt, src)

NextHeap ==
    \/ \E row \in RowsH, col \in ColsH : set_entry(row, col)
    \/ \E idx \in ColsH : heapify_col(idx)
    \/ \E idx \in ColsH : finalize(idx)
    \/ \E idx \in ColsH : pivot(idx)
    \/ \E idx \in ColsH : remove_pivot(idx)
    \/ \E src \in ColsH, tgt \in ColsH : add(src, tgt)

SpecHeap == InitHeap /\ [][NextHeap]_vars

(***************************************************************************)
(* Properties of the lazy-heap store.                                      *)
(***************************************************************************)
\* the rows handed out by calling remove_pivot until it returns -1
RemovedUntilEmpty(col) == drain(col, <<>>)

\* C7: after finalize on a heap-ordered column the raw vector holds exactly
\* the rows of odd multiplicity, each once, in max-heap order; so
\* pivot_finalized is the largest such row and remove_pivot, repeated until
\* -1, hands out exactly that set (5,3,5 finalizes to pivot_finalized = 3).
Thm_C7_FinalizeKeepsOddRows ==
    last.op = "finalize" =>
        LET c == matrix[last.idx]
            odd == OddRows(pre[last.idx])
        IN /\ Range(c) = odd
           /\ NoDup(c)
           /\ IsHeap(c)
           /\ get_max_index_finalized(c) = MaxOf(odd)
           /\ Range(RemovedUntilEmpty(c)) = odd
           /\ Len(RemovedUntilEmpty(c)) = Cardinality(odd)

Wit_C7_FiveThreeFive ==
    /\ last.op = "finalize"
    /\ pre[last.idx] = <<5, 3, 5>>
    /\ matrix[last.idx] = <<3>>
    /\ get_max_index_finalized(matrix[last.idx]) = 3

\* C8: finalize is idempotent: finalizing a column that finalize has just
\* produced leaves the column as it is.
Thm_C8_FinalizeIdempotent ==
    last.op = "finalize" => prune(matrix[last.idx]) = matrix[last.idx]

Wit_C8_FinalizedTwoRows ==
    /\ last.op = "finalize"
    /\ Len(pre[last.idx]) = 3
    /\ Len(matrix[last.idx]) = 2
    /\ matrix[last.idx] # pre[last.idx]

\* C9: if src and tgt are different columns with the same pivot p # -1,
\* then after add_to(src, tgt) the pivot of tgt is below p (possibly -1)
\* and the logical content of src is what it was.
Thm_C9_PivotDropsAfterAdd ==
    (/\ last.op = "add_to"
     /\ IsHeap(pre[last.src])
     /\ get_max_index(pre[last.src]).ret # -1
     /\ get_max_index(pre[last.src]).ret = get_max_index(pre[last.idx]).ret)
    => /\ get_max_index(matrix[last.idx]).ret
            < get_max_index(pre[last.src]).ret
       /\ OddRows(matrix[last.src]) = OddRows(pre[last.src])

Wit_C9_SamePivotLeavesLower ==
    /\ last.op = "add_to"
    /\ pre[last.src] = <<5>>
    /\ pre[last.idx] = <<5, 2>>
    /\ Len(matrix[last.idx]) = 3
    /\ get_max_index(matrix[last.idx]).ret = 2

\* C10: pivot on a heap-ordered column returns the largest row of odd
\* multiplicity, or -1 when there is none; when it returns a row the
\* logical content of the column is unchanged, and no other column changes.
Thm_C10_PivotIsLargestOddRow ==
    last.op = "pivot" =>
        /\ ret = <<MaxOf(OddRows(pre[last.idx]))>>
        /\ ret # <<-1>> => OddRows(matrix[last.idx]) = OddRows(pre[last.idx])
        /\ \A c \in ColsH : c # last.idx => matrix[c] = pre[c]

Wit_C10_PivotBelowDuplicates ==
    /\ last.op = "pivot"
    /\ pre[last.idx] = <<5, 5, 2>>
    /\ ret = <<2>>
    /\ Len(matrix[1 - last.idx]) > 0

(***************************************************************************)
(* Stores of lazy-heap columns as the bigraded matrices hold them:         *)
(* [matrix |-> columns 0..n-1, inserts |-> their insert counters].         *)
(***************************************************************************)
Width(S) == Cardinality(DOMAIN S.matrix)

\* MapMatrix(rows, cols): cols empty columns
EmptyStore(n) ==
    [matrix |-> [c \in 0..(n - 1) |-> <<>>], inserts |-> [c \in 0..(n - 1) |-> 0]]

\* MapMatrix(size): the identity matrix
IdentityStore(n) ==
    [matrix |-> [c \in 0..(n - 1) |-> <<c>>], inserts |-> [c \in 0..(n - 1) |-> 0]]

WithColumn(S, c, col, ins) ==
    [matrix |-> [S.matrix EXCEPT ![c] = col], inserts |-> [S.inserts EXCEPT ![c] = ins]]

\* _append_col(col): push_back on both vectors
append_col(S, col) ==
    LET n == Width(S)
    IN [matrix  |-> [c \in 0..n |-> IF c < n THEN S.matrix[c] ELSE col],
        inserts |-> [c \in 0..n |-> IF c < n THEN S.inserts[c] ELSE 0]]

\* _move_col(column& col, idx): column idx takes the content of col
move_col_from(S, col, idx) == WithColumn(S, idx, col, 0)

\* the source column of a move afterwards: the cleared temp buffer
MovedOut == <<>>

(***************************************************************************)
(* IndexMatrix: ind[y][x], with the first column of a bigrade in the colex *)
(* layout (IndexMatrix) and in the lex layout (the index matrix of a       *)
(* BigradedMatrixLex).                                                     *)
(***************************************************************************)
IndHeight(I) == Cardinality(DOMAIN I)
IndWidth(I) == IF IndHeight(I) = 0 THEN 0 ELSE Cardinality(DOMAIN I[0])

NewIndexMatrix(h, w) == [y \in 0..(h - 1) |-> [x \in 0..(w - 1) |-> -1]]

IndSet(I, y, x, v) == [I EXCEPT ![y][x] = v]

start_index(I, y, x) ==
    IF x > 0 THEN I[y][x - 1] + 1
    ELSE IF y > 0 THEN I[y - 1][IndWidth(I) - 1] + 1
    ELSE 0

start_index_lex(I, y, x) ==
    IF y > 0 THEN I[y - 1][x] + 1
    ELSE IF x > 0 THEN I[IndHeight(I) - 1][x - 1] + 1
    ELSE 0

(***************************************************************************)
(* BigradedMatrix(BigradedMatrixLex&): the columns of lex_mat are moved,   *)
(* bigrade by bigrade, into the new matrix.                                *)
(***************************************************************************)
\* the bigrades <<y, x>> in the order of the two for loops, x outer
LexLoops(h, w) == [k \in 1..(h * w) |-> <<(k - 1) % h, (k - 1) \div h>>]

\* the walk with x outermost, as the lex layout has it
ColexLoopsXOuter(h, w) == LexLoops(h, w)

\* the bigrades <<y, x>> in the order of the constructor's for loops, y outer
ColexLoops(h, w) == [k \in 1..(h * w) |-> <<(k - 1) \div w, (k - 1) % w>>]

\* the value the constructor stores for a bigrade, were it the next free slot
LastSlotIsNextFree(current) == current

\* the value the constructor stores for a bigrade: the last slot written
LastSlot(current) == current - 1

RECURSIVE move_range(_, _, _, _, _)
\* the innermost for loop: <<destination, source, current_index>>
move_range(dst, srcS, c, last_col, current) ==
    IF c > last_col THEN <<dst, srcS, current>>
    ELSE move_range(move_col_from(dst, srcS.matrix[c], current),
                    WithColumn(srcS, c, MovedOut, srcS.inserts[c]),
                    c + 1, last_col, current + 1)

NewBigraded(rows, cols, h, w) ==
    [mat |-> EmptyStore(cols), ind |-> NewIndexMatrix(h, w), rows |-> rows]

\* the member initialisers of the constructor
from_lex_enter(src) ==
    /\ result' = NewBigraded(src.rows, Width(src.mat), IndHeight(src.ind),
                             IndWidth(src.ind))
    /\ current_index' = 0
    /\ at' = 1
    /\ lex0' = src
    /\ moved' = [c \in 0..(Width(src.mat) - 1) |-> 0]

\* one pass of the body of the two for loops
from_lex_bigrade ==
    /\ pc = "convert"
    /\ at <= Len(ColexLoops(IndHeight(result.ind), IndWidth(result.ind)))
    /\ LET yx == ColexLoops(IndHeight(result.ind), IndWidth(result.ind))[at]
           first_col == start_index_lex(lex_mat.ind, yx[1], yx[2])
           last_col == lex_mat.ind[yx[1]][yx[2]]
           m == move_range(result.mat, lex_mat.mat, first_col, last_col,
                           current_index)
       IN /\ result' = [result EXCEPT !.mat = m[1],
                                      !.ind = IndSet(@, yx[1], yx[2], LastSlot(m[3]))]
          /\ lex_mat' = [lex_mat EXCEPT !.mat = m[2]]
          /\ current_index' = m[3]
          /\ moved' = [c \in DOMAIN moved |->
                          IF first_col <= c /\ c <= last_col
                          THEN moved[c] + 1 ELSE moved[c]]
    /\ at' = at + 1
    /\ UNCHANGED <<pc, num_rows, mat, ind, reduction_matrix, lows, curr_x,
                   curr_y, j, l, changing_column, orig, lex0, appended>>
    /\ UNCHANGED <<heapVars, permVars, should_continue>>

\* lex_mat = BigradedMatrixLex(0,0,0,0) and the return
from_lex_return ==
    /\ pc = "convert"
    /\ at > Len(ColexLoops(IndHeight(result.ind), IndWidth(result.ind)))
    /\ lex_mat' = NewBigraded(0, 0, 0, 0)
    /\ pc' = "done"
    /\ UNCHANGED <<num_rows, mat, ind, reduction_matrix, lows, curr_x, curr_y,
                   j, l, changing_column, at, current_index, result, orig,
                   lex0, appended, moved>>
    /\ UNCHANGED <<heapVars, permVars, should_continue>>

\* index matrices of n columns on the grid whose entries do not decrease
\* along `loops' and end at n - 1
Layouts(n, loops) ==
    {I \in [0..(GridH - 1) -> [0..(GridW - 1) -> -1..(n - 1)]] :
        /\ \A k \in 1..(Len(loops) - 1) :
               I[loops[k][1]][loops[k][2]] <= I[loops[k + 1][1]][loops[k + 1][2]]
        /\ I[loops[Len(loops)][1]][loops[Len(loops)][2]] = n - 1}

\* a lex-layout matrix of n columns; column c holds the single entry c
TaggedLex(n, I) == [mat |-> IdentityStore(n), ind |-> I, rows |-> n]

InitFromLex ==
    /\ should_continue = TRUE
    /\ matrix = <<>> /\ inserts_since_last_prune = <<>> /\ ret = <<>>
    /\ last = <<>> /\ pre = <<>> /\ preIns = <<>>
    /\ pc = "convert"
    /\ num_rows = 0
    /\ mat = <<>> /\ ind = <<>> /\ reduction_matrix = <<>>
    /\ lows = <<>>
    /\ curr_x = 0 /\ curr_y = 0 /\ j = 0 /\ l = -1
    /\ changing_column = FALSE
    /\ orig = <<>> /\ appended = <<>>
    /\ NoPermuted
    /\ \E n \in 0..MaxColsK :
         \E I \in Layouts(n, LexLoops(GridH, GridW)) :
            /\ lex_mat = TaggedLex(n, I)
            /\ lex0 = lex_mat
            /\ result = NewBigraded(n, n, GridH, GridW)
            /\ current_index = 0
            /\ at = 1
            /\ moved = [c \in 0..(n - 1) |-> 0]

NextFromLex == from_lex_bigrade \/ from_lex_return

SpecFromLex == InitFromLex /\ [][NextFromLex]_vars

(***************************************************************************)
(* BigradedMatrix::kernel() and kernel_one_bigrade().                      *)
(***************************************************************************)
\* the condition of the if and of the while: column j has to be reduced
Reducible(low, lowArray, col) ==
    low # -1 /\ lowArray[low] # -1 /\ lowArray[low] < col

\* a column that is zero goes to the kernel whenever it is visited
AppendsOnEveryVisit(changing, col, first_col_curr_bigrade) == TRUE

\* a column that is zero goes to the kernel only if it was zeroed just now
AppendsOnlyWhenZeroed(changing, col, first_col_curr_bigrade) == changing

\* a column that is zero goes to the kernel: it was zeroed just now, or it
\* is a column of the current bigrade
AppendsToKernel(changing, col, first_col_curr_bigrade) ==
    changing \/ col >= first_col_curr_bigrade

first_col_of(y) == start_index(ind, y, 0)
first_col_curr_bigrade_of(y, x) == start_index(ind, y, x)
last_col_of(y, x) == ind[y][x]

\* the finalized column of a set of rows
FinalizedColumn(S) == make_heap(Ascending(S))

NumEntries(cs) ==
    LET RECURSIVE Sum(_)
        Sum(k) == IF k < 0 THEN 0 ELSE Cardinality(cs[k]) + Sum(k - 1)
    IN Sum(Cardinality(DOMAIN cs) - 1)

\* kernel() is called on a BigradedMatrix
KernelCalled ==
    /\ matrix = <<>> /\ inserts_since_last_prune = <<>> /\ ret = <<>>
    /\ last = <<>> /\ pre = <<>> /\ preIns = <<>>
    /\ pc = "call"
    /\ NoPermuted
    /\ \E r \in 1..MaxRowsK, n \in 0..MaxColsK :
         /\ r * n <= MaxCells
         /\ \E cs \in [0..(n - 1) -> SUBSET (0..(r - 1))] :
              /\ NumEntries(cs) <= MaxEntries
              /\ num_rows = r
              /\ orig = cs
              /\ mat = [matrix  |-> [c \in 0..(n - 1) |-> FinalizedColumn(cs[c])],
                        inserts |-> [c \in 0..(n - 1) |-> 0]]
         /\ ind \in Layouts(n, ColexLoops(GridH, GridW))
    /\ reduction_matrix = <<>> /\ lex_mat = <<>> /\ lows = <<>>
    /\ curr_x = 0 /\ curr_y = 0 /\ j = 0 /\ l = -1
    /\ changing_column = FALSE
    /\ at = 0 /\ current_index = 0
    /\ result = <<>> /\ lex0 = <<>>
    /\ appended = <<>> /\ moved = <<>>

\* the application does not ask for cancellation
InitKernel == KernelCalled /\ should_continue = TRUE

\* the application may ask for cancellation: its callback would answer FALSE
InitKernelAbort == KernelCalled /\ should_continue \in BOOLEAN

\* kernel(), up to the first kernel_one_bigrade
kernel_enter ==
    /\ pc = "call"
    /\ lex_mat' = NewBigraded(Width(mat), 0, IndHeight(ind), IndWidth(ind))
    /\ reduction_matrix' = IdentityStore(Width(mat))
    /\ lows' = [r \in 0..(num_rows - 1) |-> -1]
    /\ appended' = [c \in 0..(Width(mat) - 1) |-> 0]
    /\ curr_x' = 0 /\ curr_y' = 0
    /\ j' = first_col_of(0)
    /\ pc' = "col"
    /\ UNCHANGED <<num_rows, mat, ind, l, changing_column, at, current_index,
                   result, orig, lex0, moved>>
    /\ UNCHANGED <<heapVars, permVars, should_continue>>

\* the head of the for loop over j: low_finalized and, if column j will
\* change, remove_low
column_enter ==
    /\ pc = "col"
    /\ j <= last_col_of(curr_y, curr_x)
    /\ LET low == get_max_index_finalized(mat.matrix[j])
       IN /\ l' = low
          /\ changing_column' = Reducible(low, lows, j)
          /\ mat' = IF Reducible(low, lows, j)
                    THEN WithColumn(mat, j, pop_max_index(mat.matrix[j]).col,
                                    mat.inserts[j])
                    ELSE mat
    /\ pc' = "while"
    /\ UNCHANGED <<num_rows, ind, reduction_matrix, lex_mat, lows, curr_x,
                   curr_y, j, at, current_index, result, orig, lex0, appended,
                   moved>>
    /\ UNCHANGED <<heapVars, permVars, should_continue>>

\* one pass of the while loop
reduce_step ==
    /\ pc = "while"
    /\ Reducible(l, lows, j)
    /\ LET c == lows[l]
           a == add_to_popped(mat.matrix[c], mat.matrix[j], mat.inserts[j])
           s == add_to(reduction_matrix.matrix[c], reduction_matrix.matrix[j],
                       reduction_matrix.inserts[j])
           r == pop_max_index(a.col)
       IN /\ mat' = WithColumn(mat, j, r.col, a.ins)
          /\ reduction_matrix' = WithColumn(reduction_matrix, j, s.col, s.ins)
          /\ l' = r.ret
    /\ UNCHANGED <<pc, num_rows, ind, lex_mat, lows, curr_x, curr_y, j,
                   changing_column, at, current_index, result, orig, lex0,
                   appended, moved>>
    /\ UNCHANGED <<heapVars, permVars, should_continue>>

\* after the while loop: record the pivot, or hand the slave column over
column_leave ==
    /\ pc = "while"
    /\ ~Reducible(l, lows, j)
    /\ IF l # -1
       THEN /\ lows' = [lows EXCEPT ![l] = j]
            /\ mat' = IF changing_column
                      THEN WithColumn(mat, j,
                                      prune(push_index(mat.matrix[j], l)), 0)
                      ELSE mat
            /\ UNCHANGED <<reduction_matrix, lex_mat, appended>>
       ELSE IF AppendsToKernel(changing_column, j,
                               first_col_curr_bigrade_of(curr_y, curr_x))
       THEN LET col == IF changing_column
                       THEN prune(reduction_matrix.matrix[j])
                       ELSE reduction_matrix.matrix[j]
            IN /\ lex_mat' = [lex_mat EXCEPT !.mat = append_col(@, col)]
               /\ reduction_matrix' = WithColumn(reduction_matrix, j, MovedOut, 0)
               /\ appended' = [appended EXCEPT ![j] = @ + 1]
               /\ UNCHANGED <<lows, mat>>
       ELSE UNCHANGED <<lows, mat, reduction_matrix, lex_mat, appended>>
    /\ j' = j + 1
    /\ pc' = "col"
    /\ UNCHANGED <<num_rows, ind, curr_x, curr_y, l, changing_column, at,
                   current_index, result, orig, lex0, moved>>
    /\ UNCHANGED <<heapVars, permVars, should_continue>>

\* the end of kernel_one_bigrade and the step of the loops of kernel(); after
\* the last bigrade, the call of the constructor on ker_lex
bigrade_leave ==
    /\ pc = "col"
    /\ j > last_col_of(curr_y, curr_x)
    /\ LET ker == [lex_mat EXCEPT !.ind = IndSet(@, curr_y, curr_x,
                                                 Width(lex_mat.mat) - 1)]
           ny == IF curr_y + 1 < IndHeight(ind) THEN curr_y + 1 ELSE 0
           nx == IF curr_y + 1 < IndHeight(ind) THEN curr_x ELSE curr_x + 1
       IN /\ curr_x' = nx
          /\ curr_y' = ny
          /\ IF nx < IndWidth(ind)
             THEN /\ lex_mat' = ker
                  /\ j' = first_col_of(ny)
                  /\ pc' = "col"
                  /\ UNCHANGED <<at, current_index, result, lex0, moved>>
             ELSE /\ lex_mat' = ker
                  /\ from_lex_enter(ker)
                  /\ pc' = "convert"
                  /\ UNCHANGED j
    /\ UNCHANGED <<num_rows, mat, ind, reduction_matrix, lows, l,
                   changing_column, orig, appended>>
    /\ UNCHANGED <<heapVars, permVars, should_continue>>

NextKernel ==
    \/ kernel_enter
    \/ column_enter
    \/ reduce_step
    \/ column_leave
    \/ bigrade_leave
    \/ from_lex_bigrade
    \/ from_lex_return

SpecKernel == InitKernel /\ [][NextKernel]_vars

SpecKernelAbort == InitKernelAbort /\ [][NextKernel]_vars

(***************************************************************************)
(* Properties of the constructor and of kernel().                          *)
(***************************************************************************)
\* the mod-2 sum of the columns cols[c], c in v
SumOf(cols, v) ==
    {r \in UNION {cols[c] : c \in v} :
        Cardinality({c \in v : r \in cols[c]}) % 2 = 1}

\* the logical columns of a store
Logical(S) == [c \in DOMAIN S.matrix |-> OddRows(S.matrix[c])]

\* the columns of the matrix kernel() returned
K == Logical(result.mat)

RECURSIVE Pow2(_)
Pow2(n) == IF n = 0 THEN 1 ELSE 2 * Pow2(n - 1)

Returned == pc = "done"

\* C1: for K = M.kernel(), M_original * K is the zero matrix and the
\* columns of K are linearly independent mod 2.
Thm_C1_KernelIsIndependentAndAnnihilated ==
    Returned =>
        /\ \A k \in DOMAIN K : K[k] \subseteq DOMAIN orig /\ SumOf(orig, K[k]) = {}
        /\ \A S \in SUBSET (DOMAIN K) : S # {} => SumOf(K, S) # {}

Wit_C1_TwoGeneratorsAfterReduction ==
    /\ Returned
    /\ Cardinality(DOMAIN K) >= 2
    /\ \E k \in DOMAIN K : Cardinality(K[k]) >= 3

\* C2: the columns of K are a basis of the whole kernel of M: every v with
\* M * v = 0 is a sum of columns of K, K has num_cols - rank columns, and
\* none at all when the columns of M are independent.
Thm_C2_KernelIsWholeKernel ==
    Returned =>
        LET V == SUBSET (DOMAIN orig)
            kernelOfM == {v \in V : SumOf(orig, v) = {}}
            imageOfM == {SumOf(orig, v) : v \in V}
        IN /\ kernelOfM = {SumOf(K, S) : S \in SUBSET (DOMAIN K)}
           /\ Cardinality(imageOfM) * Pow2(Cardinality(DOMAIN K))
                  = Pow2(Cardinality(DOMAIN orig))
           /\ kernelOfM = {{}} => DOMAIN K = {}

Wit_C2_IdentityHasEmptyKernel ==
    /\ Returned
    /\ num_rows = 3
    /\ orig = [c \in 0..2 |-> {c}]
    /\ DOMAIN K = {}

\* the input of scenario S2: columns (1,1,0), (1,1,0), (0,0,0), all at (0,0)
InputS2 ==
    /\ num_rows = 3
    /\ orig = [c \in 0..2 |-> IF c = 2 THEN {} ELSE {0, 1}]
    /\ ind[0][0] = 2

\* C3 as stated: for M = [[1,1,0],[1,1,0],[0,0,0]] with all columns at
\* (0,0) the kernel has exactly one column, (1,1,0), and ker.ind[0][0] = 0.
Orig_C3_OneGenerator ==
    (Returned /\ InputS2) =>
        /\ DOMAIN K = {0}
        /\ K[0] = {0, 1}
        /\ result.ind[0][0] = 0

\* C3 amended: for that M the kernel has exactly two columns, (1,1,0) and
\* (0,0,1), and ker.ind[0][0] = 1.
Thm_C3_TwoGenerators ==
    (Returned /\ InputS2) =>
        /\ DOMAIN K = {0, 1}
        /\ K[0] = {0, 1}
        /\ K[1] = {2}
        /\ result.ind[0][0] = 1

Wit_C3_ScenarioS2Returned == Returned /\ InputS2

\* C4: the matrix kernel() returns satisfies the invariants of a Bigraded
\* Matrix: its column count is ind[H-1][W-1]+1, ind does not decrease along
\* the colex walk (y outer, x inner), and every column lies in exactly one
\* interval [start_index(y,x), get(y,x)].
Thm_C4_KernelIsBigradedMatrix ==
    Returned =>
        LET I == result.ind
            h == IndHeight(I)
            w == IndWidth(I)
            walk == ColexLoops(h, w)
        IN /\ Width(result.mat) = I[h - 1][w - 1] + 1
           /\ \A k \in 1..(Len(walk) - 1) :
                  I[walk[k][1]][walk[k][2]] <= I[walk[k + 1][1]][walk[k + 1][2]]
           /\ \A c \in DOMAIN K :
                  Cardinality({k \in 1..Len(walk) :
                      /\ start_index(I, walk[k][1], walk[k][2]) <= c
                      /\ c <= I[walk[k][1]][walk[k][2]]}) = 1

Wit_C4_GeneratorsInBothRows ==
    /\ Returned
    /\ orig # <<>>
    /\ result.ind[0][0] = 0
    /\ result.ind[0][1] = 1
    /\ result.ind[1][0] = 1
    /\ result.ind[1][1] = 2

\* the bigrade <<y, x>> of column c of the input
BigradeOf(c) ==
    CHOOSE b \in Range(ColexLoops(IndHeight(ind), IndWidth(ind))) :
        start_index(ind, b[1], b[2]) <= c /\ c <= ind[b[1]][b[2]]

\* kernel_one_bigrade has finished a visit of column c
Visited(c) ==
    \/ pc \in {"convert", "done"}
    \/ /\ pc \in {"col", "while"}
       /\ LET b == BigradeOf(c)
          IN \/ b[2] < curr_x
             \/ b[2] = curr_x /\ b[1] < curr_y
             \/ b[2] = curr_x /\ b[1] = curr_y /\ c < j

\* the input of scenario S3: c0 = c1 = (1,0) at (0,0), c2 = c3 = (0,1) at (1,0)
InputS3 ==
    /\ num_rows = 2
    /\ orig = [c \in 0..3 |-> IF c < 2 THEN {0} ELSE {1}]
    /\ ind[0][0] = 1
    /\ ind[0][1] = 3

\* C5: during kernel() the slave column of input column c goes to ker_lex at
\* most once: at the first visit after which column c is zero, and never
\* again at a later visit (S3 gives e0+e1 at (0,0) and e2+e3 at (1,0) with
\* ker.ind[0][0] = 0 and ker.ind[0][1] = 1).
Thm_C5_OneGeneratorPerColumn ==
    /\ pc \in {"col", "while", "convert", "done"} =>
           \A c \in DOMAIN appended :
               \/ pc = "while" /\ c = j
               \/ appended[c] =
                      IF Visited(c) /\ OddRows(mat.matrix[c]) = {} THEN 1 ELSE 0
    /\ (Returned /\ InputS3) =>
           /\ K = [k \in 0..1 |-> IF k = 0 THEN {0, 1} ELSE {2, 3}]
           /\ result.ind[0][0] = 0
           /\ result.ind[0][1] = 1

Wit_C5_ScenarioS3Returned ==
    /\ Returned
    /\ InputS3
    /\ appended = [c \in 0..3 |-> IF c \in {1, 3} THEN 1 ELSE 0]

\* the bigrade <<y, x>> of column c of the lex-layout source
BigradeOfLex(c) ==
    CHOOSE b \in Range(LexLoops(IndHeight(lex0.ind), IndWidth(lex0.ind))) :
        start_index_lex(lex0.ind, b[1], b[2]) <= c /\ c <= lex0.ind[b[1]][b[2]]

\* bigrade a comes before bigrade b in colex order
ColexBefore(a, b) == a[1] < b[1] \/ (a[1] = b[1] /\ a[2] < b[2])

\* the slot of the new matrix that column c of the source belongs in
SlotOf(c) ==
    Cardinality({d \in DOMAIN lex0.mat.matrix :
        \/ ColexBefore(BigradeOfLex(d), BigradeOfLex(c))
        \/ BigradeOfLex(d) = BigradeOfLex(c) /\ d < c})

\* C6: the constructor from a lex-layout matrix moves every source column
\* exactly once; the new columns are the source columns grouped by bigrade
\* in colex order, in their order inside each bigrade; ind[y][x] is the last
\* slot written up to and including bigrade (x,y) (-1 if none); the source
\* ends as an empty 0x0 matrix.
Thm_C6_LexToColex ==
    Returned =>
        /\ \A c \in DOMAIN lex0.mat.matrix :
               /\ moved[c] = 1
               /\ result.mat.matrix[SlotOf(c)] = lex0.mat.matrix[c]
        /\ Width(result.mat) = Width(lex0.mat)
        /\ \A y \in DOMAIN result.ind : \A x \in DOMAIN result.ind[y] :
               result.ind[y][x] =
                   Cardinality({c \in DOMAIN lex0.mat.matrix :
                       ~ColexBefore(<<y, x>>, BigradeOfLex(c))}) - 1
        /\ lex_mat = NewBigraded(0, 0, 0, 0)

Wit_C6_ColumnsChangePlaces ==
    /\ Returned
    /\ Width(lex0.mat) = 4
    /\ lex0.ind[0][0] = 0
    /\ lex0.ind[1][0] = 1
    /\ lex0.ind[0][1] = 2
    /\ result.mat.matrix = [c \in 0..3 |-> <<IF c = 1 THEN 2 ELSE IF c = 2 THEN 1 ELSE c>>]
    /\ result.ind[0][1] = 1
    /\ result.ind[1][0] = 2

(***************************************************************************)
(* MapMatrix_Base: a column is a linked list of row indices in decreasing  *)
(* order, here the sequence of its nodes from the head.                    *)
(***************************************************************************)
RowsP == 0..(NumRowsP - 1)
ColsP == 0..(NumColsP - 1)

RECURSIVE list_set(_, _)
\* MapMatrix_Base::set on one column: the walk to the insertion point
list_set(col, i) ==
    IF col = <<>> THEN <<i>>
    ELSE IF col[1] = i THEN col
    ELSE IF col[1] < i THEN <<i>> \o col
    ELSE <<col[1]>> \o list_set(Tail(col), i)

RECURSIVE list_entry(_, _)
\* MapMatrix_Base::entry on one column
list_entry(col, i) ==
    IF col = <<>> THEN FALSE
    ELSE IF col[1] < i THEN FALSE
    ELSE IF col[1] = i THEN TRUE
    ELSE list_entry(Tail(col), i)

RECURSIVE add_nodes(_, _, _)
\* the while (jnode != NULL) loop of add_column: passed holds the nodes of
\* column k up to khandle, ahead the nodes after it
add_nodes(jnodes, passed, ahead) ==
    IF jnodes = <<>> THEN passed \o ahead
    ELSE IF ahead = <<>>
         THEN add_nodes(Tail(jnodes), Append(passed, jnodes[1]), <<>>)
    ELSE IF ahead[1] = jnodes[1]
         THEN add_nodes(Tail(jnodes), passed, Tail(ahead))
    ELSE IF ahead[1] < jnodes[1]
         THEN add_nodes(Tail(jnodes), Append(passed, jnodes[1]), ahead)
    ELSE add_nodes(jnodes, Append(passed, ahead[1]), Tail(ahead))

\* add_column as it would be if equal rows were kept and not removed
list_add_keeps_equal_rows(jcol, kcol) ==
    LET RECURSIVE Merge(_, _)
        Merge(a, b) ==
            IF a = <<>> THEN b
            ELSE IF b = <<>> THEN a
            ELSE IF b[1] = a[1] THEN <<b[1]>> \o Merge(Tail(a), Tail(b))
            ELSE IF b[1] < a[1] THEN <<a[1]>> \o Merge(Tail(a), b)
            ELSE <<b[1]>> \o Merge(a, Tail(b))
    IN Merge(jcol, kcol)

\* MapMatrix_Base::add_column past its checks: the new column k
list_add(jcol, kcol) == add_nodes(jcol, <<>>, kcol)

(***************************************************************************)
(* MapMatrix_Perm: the linked-list matrix with a row permutation.          *)
(***************************************************************************)
Identity(n) == [i \in 0..(n - 1) |-> i]

\* MapMatrix_Perm::entry(i, j)
entry(i, jj) == list_entry(columns[jj], mrep[i])

\* low as it would be if it returned the head of the list
low_reads_head(p, col) == IF col = <<>> THEN -1 ELSE p[col[1]]

\* MapMatrix_Perm::low on one column under the permutation p
low_of(p, col) == MaxOf({p[col[k]] : k \in DOMAIN col})

\* MapMatrix_Perm::low(j)
low(jj) == low_of(perm, columns[jj])

\* the state MapMatrix_Perm keeps, for the history
PermState == [perm |-> perm, mrep |-> mrep, columns |-> columns,
              low_col |-> low_col]

\* the history a call leaves: the state it started in, and the number of
\* calls made since the matrix was built
Started == [at |-> PermState, calls |-> was.calls + 1]

\* the history while the matrix is built
Built(cols) == [at |-> [PermState EXCEPT !.columns = cols], calls |-> 0]

\* the lazy-heap store and the bigraded matrices are not in use
OnlyListPerm ==
    /\ matrix = <<>> /\ inserts_since_last_prune = <<>> /\ ret = <<>>
    /\ pre = <<>> /\ preIns = <<>>
    /\ NoBigraded

IdleOfListPerm ==
    UNCHANGED <<matrix, inserts_since_last_prune, ret, pre, preIns, num_rows,
                mat, ind, reduction_matrix, lex_mat, lows, curr_x, curr_y, l,
                changing_column, at, current_index, result, orig, lex0,
                appended, moved, should_continue>>

\* MapMatrix_Perm(rows, cols)
InitListPerm ==
    /\ perm = Identity(NumRowsP)
    /\ mrep = Identity(NumRowsP)
    /\ columns = [c \in ColsP |-> <<>>]
    /\ low_col = [r \in RowsP |-> -1]
    /\ U = <<>>
    /\ err = ""
    /\ was = Built(columns)
    /\ last = Call("build", 0, -1)
    /\ OnlyListPerm

\* MapMatrix_Perm::set(i, j), for matrix construction only
set(i, jj) ==
    /\ pc = "off"
    /\ last.op = "build"
    /\ last.idx < MaxSetCalls
    /\ columns' = [columns EXCEPT ![jj] = list_set(@, mrep[i])]
    /\ last' = Call("build", last.idx + 1, -1)
    /\ was' = Built(columns')
    /\ err' = ""
    /\ UNCHANGED <<perm, mrep, low_col, U, pc, j>>
    /\ IdleOfListPerm

\* swap_rows as it would be if only mrep were updated
swap_rows_keeps_perm(p, m, i) ==
    [perm |-> p, mrep |-> [m EXCEPT ![i] = m[i + 1], ![i + 1] = m[i]]]

\* swap_rows as it would be if only perm were updated
swap_rows_keeps_mrep(p, m, i) ==
    [perm |-> [p EXCEPT ![m[i]] = p[m[i + 1]], ![m[i + 1]] = p[m[i]]], mrep |-> m]

\* MapMatrix_Perm::swap_rows(i) on the two arrays
swap_rows_of(p, m, i) ==
    LET a == m[i]
        b == m[i + 1]
    IN [perm |-> [p EXCEPT ![a] = p[b], ![b] = p[a]],
        mrep |-> [m EXCEPT ![i] = b, ![i + 1] = a]]

\* MapMatrix_Perm::swap_rows(i), 0 <= i < num_rows - 1
swap_rows(i) ==
    /\ pc = "off"
    /\ was.calls < MaxCallsP
    /\ LET s == swap_rows_of(perm, mrep, i)
       IN perm' = s.perm /\ mrep' = s.mrep
    /\ last' = Call("swap_rows", i, -1)
    /\ was' = Started
    /\ err' = ""
    /\ UNCHANGED <<columns, low_col, U, pc, j>>
    /\ IdleOfListPerm

\* MapMatrix::add_column(j, k) -> MapMatrix_Base::add_column(j, k)
add_column(jj, k) ==
    /\ pc = "off"
    /\ was.calls < MaxCallsP
    /\ IF jj = k
       THEN /\ err' = "runtime_error"
            /\ UNCHANGED columns
       ELSE /\ err' = ""
            /\ columns' = [columns EXCEPT ![k] = list_add(columns[jj], @)]
    /\ last' = Call("add_column", k, jj)
    /\ was' = Started
    /\ UNCHANGED <<perm, mrep, low_col, U, pc, j>>
    /\ IdleOfListPerm

\* the test of the while loop of decompose_RU on column jj
Collides(jj) == low(jj) >= 0 /\ low_col[low(jj)] >= 0

\* decompose_RU: U = new MapMatrix_RowPriority_Perm(columns.size()), j = 0
decompose_RU ==
    /\ pc = "off"
    /\ was.calls < MaxCallsP
    /\ pc' = "ru"
    /\ j' = 0
    /\ U' = [r \in ColsP |-> <<r>>]
    /\ last' = Call("decompose_RU", -1, -1)
    /\ was' = Started
    /\ err' = ""
    /\ UNCHANGED <<perm, mrep, columns, low_col>>
    /\ IdleOfListPerm

\* the row operation on U as it would be if it mirrored the column operation
add_row_same_direction(rows, jj, c) == [rows EXCEPT ![jj] = list_add(rows[c], @)]

\* MapMatrix_RowPriority_Perm::add_row(j, c) on the rows of U
add_row(rows, jj, c) == [rows EXCEPT ![c] = list_add(rows[jj], @)]

\* one pass of the while loop of decompose_RU; add_column throws when the
\* low array names column j itself
decompose_RU_while ==
    /\ pc = "ru"
    /\ j < NumColsP
    /\ Collides(j)
    /\ LET c == low_col[low(j)]
       IN IF c = j
          THEN /\ err' = "runtime_error"
               /\ pc' = "off"
               /\ U' = <<>>
               /\ UNCHANGED columns
          ELSE /\ columns' = [columns EXCEPT ![j] = list_add(columns[c], @)]
               /\ U' = add_row(U, j, c)
               /\ UNCHANGED <<err, pc>>
    /\ UNCHANGED <<perm, mrep, low_col, j, last, was>>
    /\ IdleOfListPerm

\* the low array as it would be if the pivot of an empty column were stored
low_col_set_unchecked(lc, jj) ==
    IF low(jj) >= 0 THEN [lc EXCEPT ![low(jj)] = jj] ELSE [lc EXCEPT ![0] = jj]

\* if (low(j) >= 0) low_col[low(j)] = j
low_col_set(lc, jj) == IF low(jj) >= 0 THEN [lc EXCEPT ![low(jj)] = jj] ELSE lc

\* the end of one pass of the for loop of decompose_RU, and the return
\* after the last column
decompose_RU_for ==
    /\ pc = "ru"
    /\ j < NumColsP
    /\ ~Collides(j)
    /\ low_col' = low_col_set(low_col, j)
    /\ j' = j + 1
    /\ pc' = IF j + 1 < NumColsP THEN "ru" ELSE "off"
    /\ UNCHANGED <<perm, mrep, columns, U, err, last, was>>
    /\ IdleOfListPerm

NextListPerm ==
    \/ \E i \in RowsP, jj \in ColsP : set(i, jj)
    \/ \E i \in 0..(NumRowsP - 2) : swap_rows(i)
    \/ \E jj \in ColsP, k \in ColsP : add_column(jj, k)
    \/ decompose_RU
    \/ decompose_RU_while
    \/ decompose_RU_for

SpecListPerm == InitListPerm /\ [][NextListPerm]_vars

(***************************************************************************)
(* vector_heap_perm: the lazy-heap store with a row permutation.  The heap *)
(* algorithms run with the comparator perm[left] < perm[right]; a stored   *)
(* value outside 0..num_rows-1 (the -1 that _get_max_index pushes on an    *)
(* empty column) has no entry in perm.                                     *)
(***************************************************************************)
\* perm[v] as the comparator reads it
Key(p, v) == IF v \in DOMAIN p THEN p[v] ELSE -1

\* max-heap order of a raw vector under the comparator
IsHeapBy(p, s) == \A k \in 2..Len(s) : Key(p, s[k]) <= Key(p, s[k \div 2])

RECURSIVE push_heap_at_perm(_, _, _, _, _)
push_heap_at_perm(p, a, hole, top, value) ==
    IF hole > top /\ Key(p, a[((hole - 1) \div 2) + 1]) < Key(p, value)
    THEN push_heap_at_perm(p, [a EXCEPT ![hole + 1] = a[((hole - 1) \div 2) + 1]],
                           (hole - 1) \div 2, top, value)
    ELSE [a EXCEPT ![hole + 1] = value]

\* std::push_heap(begin, end, comp)
push_heap_perm(p, a) ==
    IF Len(a) = 0 THEN a ELSE push_heap_at_perm(p, a, Len(a) - 1, 0, a[Len(a)])

RECURSIVE adjust_down_perm(_, _, _, _, _)
adjust_down_perm(p, a, hole, child, len) ==
    IF child < (len - 1) \div 2
    THEN LET c2 == 2 * (child + 1)
             c  == IF Key(p, a[c2 + 1]) < Key(p, a[c2]) THEN c2 - 1 ELSE c2
         IN adjust_down_perm(p, [a EXCEPT ![hole + 1] = a[c + 1]], c, c, len)
    ELSE <<a, hole, child>>

adjust_heap_perm(p, a, holeIndex, len, value) ==
    LET d  == adjust_down_perm(p, a, holeIndex, holeIndex, len)
        a1 == d[1]
        h1 == d[2]
        c1 == d[3]
        lone == len % 2 = 0 /\ c1 = (len - 2) \div 2
        a2 == IF lone THEN [a1 EXCEPT ![h1 + 1] = a1[2 * (c1 + 1)]] ELSE a1
        h2 == IF lone THEN 2 * (c1 + 1) - 1 ELSE h1
    IN push_heap_at_perm(p, a2, h2, holeIndex, value)

\* std::pop_heap(begin, end, comp) followed by pop_back()
pop_heap_back_perm(p, a) ==
    IF Len(a) <= 1 THEN <<>>
    ELSE adjust_heap_perm(p, SubSeq(a, 1, Len(a) - 1), 0, Len(a) - 1, a[Len(a)])

RECURSIVE make_heap_from_perm(_, _, _)
make_heap_from_perm(p, a, parent) ==
    LET b == adjust_heap_perm(p, a, parent, Len(a), a[parent + 1])
    IN IF parent = 0 THEN b ELSE make_heap_from_perm(p, b, parent - 1)

\* std::make_heap(begin, end, comp)
make_heap_perm(p, a) ==
    IF Len(a) < 2 THEN a ELSE make_heap_from_perm(p, a, (Len(a) - 2) \div 2)

RECURSIVE pop_max_loop_perm(_, _, _)
pop_max_loop_perm(p, col, max_element) ==
    IF Len(col) > 0 /\ col[1] = max_element
    THEN LET c1 == pop_heap_back_perm(p, col)
         IN IF Len(c1) = 0 THEN [col |-> c1, ret |-> -1]
            ELSE pop_max_loop_perm(p, pop_heap_back_perm(p, c1), c1[1])
    ELSE [col |-> col, ret |-> max_element]

\* vector_heap_perm::_pop_max_index(column&): the stored index popped
pop_max_index_perm(p, col) ==
    IF Len(col) = 0 THEN [col |-> col, ret |-> -1]
    ELSE pop_max_loop_perm(p, pop_heap_back_perm(p, col), col[1])

RECURSIVE drain_perm(_, _, _)
drain_perm(p, col, temp_col) ==
    LET r == pop_max_index_perm(p, col)
    IN IF r.ret = -1 THEN temp_col
       ELSE drain_perm(p, r.col, Append(temp_col, r.ret))

\* vector_heap_perm::_prune(idx), the new raw column
prune_perm(p, col) == make_heap_perm(p, Reverse(drain_perm(p, col, <<>>)))

\* vector_heap_perm::_get_max_index(idx)
get_max_index_perm(p, col) ==
    LET r == pop_max_index_perm(p, col)
    IN [col |-> push_heap_perm(p, Append(r.col, r.ret)),
        ret |-> IF r.ret = -1 THEN -1 ELSE p[r.ret]]

\* vector_heap_perm::_get_max_index_finalized(idx)
get_max_index_finalized_perm(p, col) == IF Len(col) = 0 THEN -1 ELSE p[col[1]]

\* vector_heap_perm::_remove_max(idx)
remove_max_perm(p, col) ==
    LET r == pop_max_index_perm(p, col)
    IN [col |-> r.col, ret |-> IF r.ret = -1 THEN -1 ELSE p[r.ret]]

RECURSIVE push_all_perm(_, _, _, _)
push_all_perm(p, tgt, src, from) ==
    IF from > Len(src) THEN tgt
    ELSE push_all_perm(p, push_heap_perm(p, Append(tgt, src[from])), src, from + 1)

\* vector_heap_perm::_add_to(source, target)
add_to_perm(p, src, tgt, ins) ==
    LET t1 == push_all_perm(p, tgt, src, 1)
        i1 == ins + Len(src)
    IN IF 2 * i1 > Len(t1) THEN [col |-> prune_perm(p, t1), ins |-> 0]
       ELSE [col |-> t1, ins |-> i1]

\* vector_heap_perm::_is_in_matrix(row, col) on one column
is_in_matrix(m, col, row) == Count(col, m[row]) % 2 = 1

\* vector_heap_perm::_swap_rows(idx) on the two arrays
heap_swap_rows(p, m, idx) ==
    LET a == m[idx]
        b == m[idx + 1]
        p1 == [p EXCEPT ![a] = idx + 1]
        p2 == [p1 EXCEPT ![b] = idx]
    IN [perm |-> p2, mrep |-> [m EXCEPT ![idx] = b, ![idx + 1] = a]]

(***************************************************************************)
(* vector_heap_perm as a state machine.  A call whose comparator would     *)
(* read perm[-1] has undefined behaviour: it ends the run with             *)
(* err = "undefined" and nothing is said about the state after it.         *)
(***************************************************************************)
\* the comparator would be applied to a stored -1
ReadsPastPerm(col) == -1 \in Range(col) /\ Len(col) >= 2

\* the linked-list matrix and the bigraded matrices are not in use
OnlyHeapPerm ==
    /\ columns = <<>> /\ low_col = <<>> /\ U = <<>>
    /\ NoBigraded

IdleOfHeapPerm ==
    UNCHANGED <<columns, low_col, U, pc, num_rows, mat, ind, reduction_matrix,
                lex_mat, lows, curr_x, curr_y, j, l, changing_column, at,
                current_index, result, orig, lex0, appended, moved,
                should_continue>>

\* the history of a call of vector_heap_perm
StartedHeapPerm(op, idx, src) ==
    /\ last' = Call(op, idx, src)
    /\ pre' = matrix
    /\ preIns' = inserts_since_last_prune
    /\ was' = Started

\* vector_heap_perm(rows, cols)
InitHeapPerm ==
    /\ matrix = [c \in ColsH |-> <<>>]
    /\ inserts_since_last_prune = [c \in ColsH |-> 0]
    /\ perm = Identity(NumRowsP)
    /\ mrep = Identity(NumRowsP)
    /\ OnlyHeapPerm
    /\ ret = <<>>
    /\ err = ""
    /\ last = Call("build", 0, -1)
    /\ pre = matrix
    /\ preIns = inserts_since_last_prune
    /\ was = Built(<<>>)

\* _set_col(idx, col) while the matrix is built: col holds the rows of S
hp_set_col(idx, S) ==
    /\ err = ""
    /\ last.op = "build"
    /\ matrix[idx] = <<>>
    /\ S # {}
    /\ RawTotal(matrix) + Cardinality(S) <= MaxRaw
    /\ matrix' = [matrix EXCEPT ![idx] = make_heap_perm(perm, Ascending(S))]
    /\ last' = Call("build", 0, -1)
    /\ pre' = matrix'
    /\ preIns' = inserts_since_last_prune
    /\ was' = Built(<<>>)
    /\ UNCHANGED <<inserts_since_last_prune, perm, mrep, ret, err>>
    /\ IdleOfHeapPerm

\* _swap_rows(idx), 0 <= idx < num_rows - 1
hp_swap_rows(idx) ==
    /\ err = ""
    /\ was.calls < MaxCallsP
    /\ LET s == heap_swap_rows(perm, mrep, idx)
       IN perm' = s.perm /\ mrep' = s.mrep
    /\ ret' = <<>>
    /\ StartedHeapPerm("swap_rows", idx, -1)
    /\ UNCHANGED <<matrix, inserts_since_last_prune, err>>
    /\ IdleOfHeapPerm

\* _add_to(source, target) on two different columns
hp_add_to(src, tgt) ==
    /\ err = ""
    /\ was.calls < MaxCallsP
    /\ src # tgt
    /\ IF ReadsPastPerm(matrix[tgt] \o matrix[src]) /\ matrix[src] # <<>>
       THEN /\ err' = "undefined"
            /\ UNCHANGED <<matrix, inserts_since_last_prune>>
       ELSE LET r == add_to_perm(perm, matrix[src], matrix[tgt],
                                 inserts_since_last_prune[tgt])
            IN /\ Len(r.col) <= MaxRaw
               /\ matrix' = [matrix EXCEPT ![tgt] = r.col]
               /\ inserts_since_last_prune' =
                      [inserts_since_last_prune EXCEPT ![tgt] = r.ins]
               /\ UNCHANGED err
    /\ ret' = <<>>
    /\ StartedHeapPerm("add_to", tgt, src)
    /\ UNCHANGED <<perm, mrep>>
    /\ IdleOfHeapPerm

\* _finalize(idx)
hp_finalize(idx) ==
    /\ err = ""
    /\ was.calls < MaxCallsP
    /\ IF ReadsPastPerm(matrix[idx])
       THEN /\ err' = "undefined"
            /\ UNCHANGED <<matrix, inserts_since_last_prune>>
       ELSE /\ matrix' = [matrix EXCEPT ![idx] = prune_perm(perm, @)]
            /\ inserts_since_last_prune' =
                   [inserts_since_last_prune EXCEPT ![idx] = 0]
            /\ UNCHANGED err
    /\ ret' = <<>>
    /\ StartedHeapPerm("finalize", idx, -1)
    /\ UNCHANGED <<perm, mrep>>
    /\ IdleOfHeapPerm

\* _get_max_index(idx), the pivot query
hp_pivot(idx) ==
    /\ err = ""
    /\ was.calls < MaxCallsP
    /\ Len(matrix[idx]) > 0 \/ RawTotal(matrix) < MaxRaw
    /\ IF ReadsPastPerm(matrix[idx])
       THEN /\ err' = "undefined"
            /\ ret' = <<>>
            /\ UNCHANGED matrix
       ELSE LET r == get_max_index_perm(perm, matrix[idx])
            IN /\ matrix' = [matrix EXCEPT ![idx] = r.col]
               /\ ret' = <<r.ret>>
               /\ UNCHANGED err
    /\ StartedHeapPerm("pivot", idx, -1)
    /\ UNCHANGED <<inserts_since_last_prune, perm, mrep>>
    /\ IdleOfHeapPerm

\* _get_max_index_finalized(idx) on a column without repeated entries
hp_pivot_finalized(idx) ==
    /\ err = ""
    /\ was.calls < MaxCallsP
    /\ NoDup(matrix[idx])
    /\ IF -1 \in Range(matrix[idx])
       THEN err' = "undefined" /\ ret' = <<>>
       ELSE ret' = <<get_max_index_finalized_perm(perm, matrix[idx])>> /\ UNCHANGED err
    /\ StartedHeapPerm("pivot_finalized", idx, -1)
    /\ UNCHANGED <<matrix, inserts_since_last_prune, perm, mrep>>
    /\ IdleOfHeapPerm

\* _remove_max(idx)
hp_remove_pivot(idx) ==
    /\ err = ""
    /\ was.calls < MaxCallsP
    /\ IF ReadsPastPerm(matrix[idx])
       THEN /\ err' = "undefined"
            /\ ret' = <<>>
            /\ UNCHANGED matrix
       ELSE LET r == remove_max_perm(perm, matrix[idx])
            IN /\ matrix' = [matrix EXCEPT ![idx] = r.col]
               /\ ret' = <<r.ret>>
               /\ UNCHANGED err
    /\ StartedHeapPerm("remove_pivot", idx, -1)
    /\ UNCHANGED <<inserts_since_last_prune, perm, mrep>>
    /\ IdleOfHeapPerm

NextHeapPerm ==
    \/ \E idx \in ColsH, S \in SUBSET RowsP : hp_set_col(idx, S)
    \/ \E idx \in 0..(NumRowsP - 2) : hp_swap_rows(idx)
    \/ \E src \in ColsH, tgt \in ColsH : hp_add_to(src, tgt)
    \/ \E idx \in ColsH : hp_finalize(idx)
    \/ \E idx \in ColsH : hp_pivot(idx)
    \/ \E idx \in ColsH : hp_pivot_finalized(idx)
    \/ \E idx \in ColsH : hp_remove_pivot(idx)

SpecHeapPerm == InitHeapPerm /\ [][NextHeapPerm]_vars

(***************************************************************************)
(* The two permuted matrices side by side: a run uses one of them.         *)
(***************************************************************************)
ListPermInUse == DOMAIN columns # {}
HeapPermInUse == DOMAIN matrix # {}

NextPermuted ==
    \/ ListPermInUse /\ NextListPerm
    \/ HeapPermInUse /\ NextHeapPerm

SpecPermuted == (InitListPerm \/ InitHeapPerm) /\ [][NextPermuted]_vars

(***************************************************************************)
(* Properties of the permuted matrices.                                    *)
(***************************************************************************)
IsPermutation(f) == DOMAIN f = RowsP /\ {f[i] : i \in RowsP} = RowsP

\* C11: perm and mrep are mutually inverse permutations of 0..num_rows-1,
\* perm[mrep[i]] = i for all i, initially and after any sequence of
\* swap_rows(i) with 0 <= i < num_rows-1, in the linked-list and in the
\* lazy-heap permuted matrix.
Thm_C11_PermAndMrepInverse ==
    /\ IsPermutation(perm)
    /\ IsPermutation(mrep)
    /\ \A i \in RowsP : perm[mrep[i]] = i

Wit_C11_ThreeCycleAfterTwoSwaps ==
    /\ ListPermInUse
    /\ last.op = "swap_rows"
    /\ mrep = [i \in RowsP |-> IF i = 0 THEN 1 ELSE IF i = 1 THEN 2
                               ELSE IF i = 2 THEN 0 ELSE i]
    /\ perm = [i \in RowsP |-> IF i = 0 THEN 2 ELSE IF i = 1 THEN 0
                               ELSE IF i = 2 THEN 1 ELSE i]

\* the observable entry (r, c) now, and when the last call started
EntryNow(r, c) ==
    IF ListPermInUse THEN entry(r, c) ELSE is_in_matrix(mrep, matrix[c], r)

EntryBefore(r, c) ==
    IF ListPermInUse THEN list_entry(was.at.columns[c], was.at.mrep[r])
    ELSE is_in_matrix(was.at.mrep, pre[c], r)

ColsInUse == IF ListPermInUse THEN ColsP ELSE ColsH

\* C12: swap_rows(i) exchanges the observable rows i and i+1 in every
\* column and leaves every other observable entry unchanged.
Thm_C12_SwapRowsExchangesRows ==
    last.op = "swap_rows" =>
        \A c \in ColsInUse :
            /\ EntryNow(last.idx, c) = EntryBefore(last.idx + 1, c)
            /\ EntryNow(last.idx + 1, c) = EntryBefore(last.idx, c)
            /\ \A r \in RowsP \ {last.idx, last.idx + 1} :
                   EntryNow(r, c) = EntryBefore(r, c)

Wit_C12_ScenarioS5 ==
    /\ ListPermInUse
    /\ last = Call("swap_rows", 0, -1)
    /\ was.calls = 1
    /\ columns[0] = <<0>> /\ columns[1] = <<1>> /\ columns[2] = <<>>
    /\ entry(0, 1) /\ entry(1, 0)
    /\ ~entry(0, 0) /\ ~entry(1, 1)

\* the largest observable row among the entries of odd multiplicity, or -1
LargestObservable(p, col) == MaxOf({p[r] : r \in OddRows(col)})

\* finalize would leave the column as it is
IsFinalized(p, col) == ~ReadsPastPerm(col) /\ prune_perm(p, col) = col

\* C13: in the lazy-heap permuted matrix, after any sequence of swap_rows
\* interleaved with add_to and finalize, pivot, pivot_finalized on a
\* finalized column and remove_pivot return the largest observable row
\* perm[stored] among the entries of odd multiplicity, or -1 when there is
\* none.
Orig_C13_PivotIsLargestObservableRow ==
    /\ HeapPermInUse
    /\ err = ""
    /\ \/ last.op \in {"pivot", "remove_pivot"}
       \/ last.op = "pivot_finalized" /\ IsFinalized(perm, pre[last.idx])
    => ret = <<LargestObservable(perm, pre[last.idx])>>

\* no two nonzero columns have the same pivot
Reduced(p, cols) ==
    \A a \in DOMAIN cols, b \in DOMAIN cols :
        a # b /\ low_of(p, cols[a]) >= 0 => low_of(p, cols[a]) # low_of(p, cols[b])

\* the pairs <<k, l>> with pivot(k) = i, pivot(l) = i+1 and entry (i, l)
\* set when swap_rows(i) started
SwapConflicts(i) ==
    {kl \in ColsP \X ColsP :
        /\ low_of(was.at.perm, was.at.columns[kl[1]]) = i
        /\ low_of(was.at.perm, was.at.columns[kl[2]]) = i + 1
        /\ list_entry(was.at.columns[kl[2]], was.at.mrep[i])}

\* C14: from a reduced permuted matrix, swap_rows(i) leaves the matrix
\* non-reduced exactly when before the swap there are columns k, l with
\* pivot(k) = i, pivot(l) = i+1 and entry (i, l) set; then one column
\* addition between k and l makes it reduced again; in every other case
\* the matrix is still reduced after the swap.
Thm_C14_SwapBreaksReducednessOnlyOnConflict ==
    (ListPermInUse /\ last.op = "swap_rows"
        /\ Reduced(was.at.perm, was.at.columns)) =>
        /\ ~Reduced(perm, columns) <=> SwapConflicts(last.idx) # {}
        /\ \A kl \in SwapConflicts(last.idx) :
               /\ Reduced(perm, [columns EXCEPT
                                   ![kl[2]] = list_add(columns[kl[1]], @)])
               /\ Reduced(perm, [columns EXCEPT
                                   ![kl[1]] = list_add(columns[kl[2]], @)])

Wit_C14_SwapLeavesSharedPivot ==
    /\ ListPermInUse
    /\ last = Call("swap_rows", 1, -1)
    /\ Reduced(was.at.perm, was.at.columns)
    /\ SwapConflicts(1) = {<<0, 2>>}
    /\ ~Reduced(perm, columns)
    /\ low(0) = 2 /\ low(2) = 2

\* the sum mod 2 of the columns cols[k], k in S, as a set of stored rows
RECURSIVE XorOfColumns(_, _)
XorOfColumns(cols, S) ==
    IF S = {} THEN {}
    ELSE LET k == CHOOSE x \in S : TRUE
             rest == XorOfColumns(cols, S \ {k})
         IN (rest \ Range(cols[k])) \cup (Range(cols[k]) \ rest)

\* column jj of the product cols * rows (mod 2), rows[k] being row k of the
\* row-priority matrix
ProductColumn(cols, rows, jj) ==
    XorOfColumns(cols, {k \in DOMAIN rows : jj \in Range(rows[k])})

\* decompose_RU has returned
Decomposed ==
    ListPermInUse /\ last.op = "decompose_RU" /\ pc = "off" /\ err = ""

\* C15 as stated: decompose_RU returns U with M_reduced = M * U (mod 2),
\* M the matrix before the call and M_reduced the matrix after it.
Orig_C15_ReducedIsMTimesU ==
    Decomposed =>
        \A c \in ColsP : Range(columns[c]) = ProductColumn(was.at.columns, U, c)

\* C15: decompose_RU returns U with M = M_reduced * U (mod 2), M the matrix
\* before the call and M_reduced the matrix after it.
Thm_C15_MIsReducedTimesU ==
    Decomposed =>
        \A c \in ColsP : Range(was.at.columns[c]) = ProductColumn(columns, U, c)

Wit_C15_TwoChainedAdditions ==
    /\ Decomposed
    /\ was.at.columns = [c \in ColsP |-> IF c = 0 THEN <<1>>
                                         ELSE IF c = 1 THEN <<1, 0>> ELSE <<0>>]
    /\ columns = [c \in ColsP |-> IF c = 0 THEN <<1>>
                                  ELSE IF c = 1 THEN <<0>> ELSE <<>>]
    /\ ProductColumn(was.at.columns, U, 2) # {}

\* the matrix was as its constructor leaves perm and low_col when the last
\* call started
WasFresh ==
    /\ was.at.perm = Identity(NumRowsP)
    /\ was.at.low_col = [r \in RowsP |-> -1]

\* C16: after decompose_RU on a freshly constructed permuted matrix
\* (identity row permutation, low_col all -1) the matrix is reduced, and
\* low_col[r] = j holds exactly when column j is nonzero with pivot r.
Thm_C16_DecomposeReducesAndFillsLowCol ==
    (Decomposed /\ WasFresh) =>
        /\ Reduced(perm, columns)
        /\ \A r \in RowsP, c \in ColsP :
               low_col[r] = c <=> (columns[c] # <<>> /\ low(c) = r)

Wit_C16_ColumnZeroedAndLowsFilled ==
    /\ Decomposed
    /\ WasFresh
    /\ ~Reduced(was.at.perm, was.at.columns)
    /\ columns[2] = <<>> /\ was.at.columns[2] # <<>>
    /\ low_col[1] = 0 /\ low_col[0] = 1

(***************************************************************************)
(* _add_to(idx, idx) on the lazy-heap store.  The code has no test for     *)
(* source = target: the loop reads matrix[source].size() again before      *)
(* every pass, so on a non-empty column every pass makes the bound one     *)
(* larger and the loop runs until push_back can allocate no more.          *)
(***************************************************************************)
IdleOfSelfAdd ==
    UNCHANGED <<num_rows, mat, ind, reduction_matrix, lex_mat, lows, curr_x,
                curr_y, l, changing_column, at, current_index, result, orig,
                lex0, appended, moved, perm, mrep, columns, low_col, U, was,
                should_continue>>

\* _add_to(idx, idx) is called on a heap-ordered column
self_add_enter(idx) ==
    /\ pc = "off"
    /\ last.op = "build"
    /\ IsHeap(matrix[idx])
    /\ last' = Call("add_to", idx, idx)
    /\ pre' = matrix
    /\ preIns' = inserts_since_last_prune
    /\ pc' = "self_add"
    /\ j' = 0
    /\ ret' = <<>>
    /\ UNCHANGED <<matrix, inserts_since_last_prune, err>>
    /\ IdleOfSelfAdd

\* one pass of the for loop: idx < matrix[source].size()
self_add_push ==
    /\ pc = "self_add"
    /\ j < Len(matrix[last.src])
    /\ IF Len(matrix[last.idx]) < MaxSize
       THEN /\ matrix' = [matrix EXCEPT ![last.idx] =
                              push_heap(Append(@, matrix[last.src][j + 1]))]
            /\ j' = j + 1
            /\ UNCHANGED <<pc, err>>
       ELSE /\ err' = "bad_alloc"
            /\ pc' = "off"
            /\ UNCHANGED <<matrix, j>>
    /\ UNCHANGED <<inserts_since_last_prune, ret, last, pre, preIns>>
    /\ IdleOfSelfAdd

\* the loop has ended: the counter update, the pruning test and the return
self_add_return ==
    /\ pc = "self_add"
    /\ j >= Len(matrix[last.src])
    /\ LET i1 == inserts_since_last_prune[last.idx] + Len(matrix[last.src])
       IN IF 2 * i1 > Len(matrix[last.idx])
          THEN /\ matrix' = [matrix EXCEPT ![last.idx] = prune(@)]
               /\ inserts_since_last_prune' =
                      [inserts_since_last_prune EXCEPT ![last.idx] = 0]
          ELSE /\ inserts_since_last_prune' =
                      [inserts_since_last_prune EXCEPT ![last.idx] = i1]
               /\ UNCHANGED matrix
    /\ pc' = "off"
    /\ UNCHANGED <<j, err, ret, last, pre, preIns>>
    /\ IdleOfSelfAdd

NextSelfAdd ==
    \/ \E row \in RowsH, col \in ColsH : last.op = "build" /\ set_entry(row, col)
    \/ \E idx \in ColsH : last.op = "build" /\ heapify_col(idx)
    \/ \E idx \in ColsH : self_add_enter(idx)
    \/ self_add_push
    \/ self_add_return

SpecSelfAdd == InitHeap /\ [][NextSelfAdd]_vars

\* C17: add_to(j, j) is rejected as an invariant violation and the matrix
\* is unchanged, in every column-store variant.
Orig_C17_SelfAddRejected ==
    (last.op = "add_to" /\ last.src = last.idx /\ pc = "off") =>
        /\ err # ""
        /\ matrix = pre
        /\ inserts_since_last_prune = preIns

(***************************************************************************)
(* Calls of the linked-list permuted matrix with an index past the end.    *)
(* add_column tests its column indices and throws std::runtime_error.      *)
(* swap_rows(i) has no test: with i + 1 = num_rows it reads mrep[i + 1]    *)
(* past the end of the vector, which is undefined; the value b it reads    *)
(* is any unsigned, NumRowsP standing for every value that is not a row.   *)
(* Either the process dies on a wild access (err = "crash"), or the call   *)
(* returns with perm and mrep rewritten from b.                            *)
(***************************************************************************)
GarbageP == 0..NumRowsP

\* add_column(jj, k) with a column index past the end
add_column_past_end(jj, k) ==
    /\ pc = "off"
    /\ last.op = "build"
    /\ jj >= NumColsP \/ k >= NumColsP
    /\ err' = "runtime_error"
    /\ last' = Call("add_column", k, jj)
    /\ was' = Started
    /\ UNCHANGED <<perm, mrep, columns, low_col, U, pc, j>>
    /\ IdleOfListPerm

\* swap_rows(num_rows - 1)
swap_rows_past_end ==
    /\ pc = "off"
    /\ last.op = "build"
    /\ LET i == NumRowsP - 1
           a == mrep[i]
       IN \/ /\ err' = "crash"
             /\ UNCHANGED <<perm, mrep>>
          \/ \E b \in GarbageP, g \in GarbageP :
                /\ err' = ""
                /\ perm' = IF b \in RowsP
                           THEN [perm EXCEPT ![a] = perm[b], ![b] = perm[a]]
                           ELSE [perm EXCEPT ![a] = g]
                /\ mrep' = [mrep EXCEPT ![i] = b]
    /\ last' = Call("swap_rows", NumRowsP - 1, -1)
    /\ was' = Started
    /\ UNCHANGED <<columns, low_col, U, pc, j>>
    /\ IdleOfListPerm

NextPastEnd ==
    \/ \E i \in RowsP, jj \in ColsP : set(i, jj)
    \/ \E jj \in 0..NumColsP, k \in 0..NumColsP : add_column_past_end(jj, k)
    \/ swap_rows_past_end

SpecPastEnd == InitListPerm /\ [][NextPastEnd]_vars

\* C18: every operation called with a row or column index past the stored
\* dimensions (among them add_column, and swap_rows(i) with
\* i + 1 >= num_rows) fails with an index-out-of-range error and leaves
\* the matrix state unchanged.
Orig_C18_PastEndIsRejected ==
    (last.op \in {"add_column", "swap_rows"}) =>
        /\ err = "runtime_error"
        /\ PermState = was.at

\* C19: whenever add_to(src, tgt) triggers pruning (2 * dirty insert
\* counter > raw size of tgt after the pushes), on return the raw length of
\* tgt equals the number of rows of odd multiplicity and the counter of tgt
\* is 0; when pruning is not triggered the counter has grown by the raw
\* size of src.
Thm_C19_AddToPrunesOrCounts ==
    last.op = "add_to" =>
        LET tgt == last.idx
            src == last.src
            i1 == preIns[tgt] + Len(pre[src])
            n == Len(pre[tgt]) + Len(pre[src])
        IN IF 2 * i1 > n
           THEN /\ Len(matrix[tgt]) = Cardinality(OddRows(pre[tgt] \o pre[src]))
                /\ inserts_since_last_prune[tgt] = 0
           ELSE /\ inserts_since_last_prune[tgt] = preIns[tgt] + Len(pre[src])
                /\ Len(matrix[tgt]) = n

Wit_C19_PruningCancelsPair ==
    /\ last = Call("add_to", 0, 1)
    /\ pre[0] = <<5>> /\ pre[1] = <<5, 3>>
    /\ preIns[0] = 0
    /\ matrix[0] = <<3>>
    /\ inserts_since_last_prune[0] = 0

\* C20: kernel() consults a should_continue check point once per bigrade;
\* when the callback answers false the call ends with AbortedByCaller and
\* no kernel, not even a partial one, is returned to the caller.
Orig_C20_AbortDiscardsKernel ==
    (~should_continue /\ Returned) =>
        /\ err = "AbortedByCaller"
        /\ result = <<>>

(***************************************************************************)
(* The fast path of the standard reduction on the lazy-heap store:         *)
(* remove_pivot(tgt) followed by add_to_popped(src, tgt).  The columns are *)
(* set with _set_col; was keeps the store as it was before the pivot of    *)
(* the target was popped.                                                  *)
(***************************************************************************)
\* the rows the columns of the fast path are built from
RowsF == {1, 3, 5}

RawColumnsF == UNION {[1..n -> RowsF] : n \in 1..MaxLenF}

\* _set_col(idx, col): the column is copied and heapified
set_col(idx, col) ==
    /\ last.op = "build"
    /\ matrix[idx] = <<>>
    /\ matrix' = [matrix EXCEPT ![idx] = make_heap(col)]
    /\ ret' = <<>>
    /\ UNCHANGED inserts_since_last_prune
    /\ Forget

\* _add_to_popped(source, target), called when the pivot of the target has
\* just been popped off
add_popped(src, tgt) ==
    /\ last = Call("remove_pivot", tgt, -1)
    /\ ret # <<-1>>
    /\ src # tgt
    /\ matrix[src] # <<>>
    /\ LET r == add_to_popped(matrix[src], matrix[tgt],
                              inserts_since_last_prune[tgt])
       IN /\ Len(r.col) <= MaxSize
          /\ matrix' = [matrix EXCEPT ![tgt] = r.col]
          /\ inserts_since_last_prune' =
                 [inserts_since_last_prune EXCEPT ![tgt] = r.ins]
    /\ ret' = <<>>
    /\ last' = Call("add_to_popped", tgt, src)
    /\ pre' = matrix
    /\ preIns' = inserts_since_last_prune
    /\ was' = pre
    /\ UNCHANGED <<kerVars, perm, mrep, columns, low_col, U, err,
                   should_continue>>

NextFastPath ==
    \/ \E idx \in ColsH, col \in RawColumnsF : set_col(idx, col)
    \/ \E idx \in ColsH : finalize(idx)
    \/ \E idx \in ColsH : remove_pivot(idx)
    \/ \E src \in ColsH, tgt \in ColsH : add_popped(src, tgt)

SpecFastPath == InitHeap /\ [][NextFastPath]_vars

SymDiff(A, B) == (A \ B) \cup (B \ A)

\* before remove_pivot(tgt): src is finalized, both columns have the pivot
\* p, and tgt holds p once
FastPathApplies(src, tgt) ==
    /\ was[src] # <<>>
    /\ IsHeap(was[src]) /\ NoDup(was[src])
    /\ pop_max_index(was[tgt]).ret = was[src][1]
    /\ Count(was[tgt], was[src][1]) = 1

\* C21: for distinct columns src and tgt with src finalized, tgt without a
\* duplicate of its pivot and pivot(src) = pivot(tgt), the sequence
\* remove_pivot(tgt); add_to_popped(src, tgt) leaves tgt with the logical
\* content add_to(src, tgt) gives, the mod-2 sum of the two columns; the
\* next pivot of tgt is the highest row that does not cancel, and src is
\* unchanged.
Thm_C21_FastPathEqualsAddTo ==
    (last.op = "add_to_popped" /\ FastPathApplies(last.src, last.idx)) =>
        LET src == last.src
            tgt == last.idx
            sum == SymDiff(OddRows(was[src]), OddRows(was[tgt]))
        IN /\ OddRows(matrix[tgt]) = sum
           /\ OddRows(matrix[tgt]) =
                  OddRows(add_to(was[src], was[tgt], preIns[tgt]).col)
           /\ pop_max_index(matrix[tgt]).ret = MaxOf(sum)
           /\ matrix[src] = was[src]

Wit_C21_ScenarioS6 ==
    /\ last = Call("add_to_popped", 1, 0)
    /\ was[0] = <<5, 3>>
    /\ was[1] = <<5, 3, 1>>
    /\ OddRows(matrix[1]) = {1}
    /\ matrix[0] = <<5, 3>>

(***************************************************************************)
(* The linked-list column store under set, clear and add_column in any     *)
(* order, on a matrix built with up to MaxSetCalls entries.  perm and mrep *)
(* stay the identity.                                                      *)
(***************************************************************************)
RECURSIVE list_clear(_, _)
\* MapMatrix_Base::clear on one column: the walk to the node of row i
list_clear(col, i) ==
    IF col = <<>> THEN col
    ELSE IF col[1] < i THEN col
    ELSE IF col[1] = i THEN Tail(col)
    ELSE <<col[1]>> \o list_clear(Tail(col), i)

\* MapMatrix_Base::set(i, j) on a matrix in use
base_set(i, jj) ==
    /\ pc = "off"
    /\ was.calls < MaxCallsB
    /\ columns' = [columns EXCEPT ![jj] = list_set(@, i)]
    /\ err' = ""
    /\ last' = Call("set", jj, i)
    /\ was' = Started
    /\ UNCHANGED <<perm, mrep, low_col, U, pc, j>>
    /\ IdleOfListPerm

\* MapMatrix_Base::clear(i, j)
clear(i, jj) ==
    /\ pc = "off"
    /\ was.calls < MaxCallsB
    /\ columns' = [columns EXCEPT ![jj] = list_clear(@, i)]
    /\ err' = ""
    /\ last' = Call("clear", jj, i)
    /\ was' = Started
    /\ UNCHANGED <<perm, mrep, low_col, U, pc, j>>
    /\ IdleOfListPerm

NextList ==
    \/ \E i \in RowsP, jj \in ColsP : set(i, jj)
    \/ \E i \in RowsP, jj \in ColsP : base_set(i, jj)
    \/ \E i \in RowsP, jj \in ColsP : clear(i, jj)
    \/ \E jj \in ColsP, k \in ColsP : was.calls < MaxCallsB /\ add_column(jj, k)

SpecList == InitListPerm /\ [][NextList]_vars

StrictlyDecreasing(col) == \A a \in 1..(Len(col) - 1) : col[a] > col[a + 1]

\* C22: in the linked-list column store, after any sequence of set, clear
\* and add_column calls with valid indices every column is a strictly
\* decreasing sequence of row indices; add_column(j, k) with j # k leaves
\* column j unchanged, makes column k the symmetric difference of the
\* former columns j and k, and leaves all other columns unchanged.
Thm_C22_SortedColumnsAndMod2Sum ==
    /\ \A c \in DOMAIN columns : StrictlyDecreasing(columns[c])
    /\ (last.op = "add_column" /\ last.src # last.idx) =>
           /\ err = ""
           /\ Range(columns[last.idx]) =
                  SymDiff(Range(was.at.columns[last.src]),
                          Range(was.at.columns[last.idx]))
           /\ \A c \in ColsP \ {last.idx} : columns[c] = was.at.columns[c]

Wit_C22_SumCancelsSharedRow ==
    /\ last = Call("add_column", 1, 0)
    /\ was.at.columns[0] = <<3, 1>>
    /\ was.at.columns[1] = <<3, 2>>
    /\ columns[0] = <<3, 1>>
    /\ columns[1] = <<2, 1>>
    /\ was.calls = 2

(***************************************************************************)
(* Column moves on the lazy-heap store.  matrix is the store a column is   *)
(* moved in, mat is another store a column is moved out of; was keeps the  *)
(* other store as it was before the call.                                  *)
(***************************************************************************)
ColsM == 0..(NumColsM - 1)

RawColumnsM == UNION {[1..n -> {0, 1}] : n \in 0..MaxLenM}

\* _move_col as it would be if the source kept its content
move_col_copies(m, src, tgt) == [m EXCEPT ![tgt] = m[src]]

\* _move_col(source, target): the target is swapped with the cleared buffer
\* and then with the source
move_col(m, src, tgt) ==
    IF src # tgt
    THEN LET temp_col == <<>>
             m1 == [m EXCEPT ![tgt] = temp_col]
         IN [m1 EXCEPT ![tgt] = m1[src], ![src] = m1[tgt]]
    ELSE m

IdleOfMoves ==
    UNCHANGED <<pc, num_rows, ind, reduction_matrix, lex_mat, lows, curr_x,
                curr_y, j, l, changing_column, at, current_index, result,
                orig, lex0, appended, moved, perm, mrep, columns, low_col, U,
                err, should_continue>>

InitMoves ==
    /\ matrix \in [ColsM -> RawColumnsM]
    /\ inserts_since_last_prune \in [ColsM -> 0..1]
    /\ mat \in {[matrix |-> cs, inserts |-> [c \in DOMAIN cs |-> 0]] :
                   cs \in [0..(NumColsOther - 1) -> {<<>>, <<1>>, <<1, 0>>}]}
    /\ ret = <<>>
    /\ last = Call("build", -1, -1)
    /\ pre = matrix
    /\ preIns = inserts_since_last_prune
    /\ was = mat
    /\ pc = "off"
    /\ num_rows = 0
    /\ ind = <<>> /\ reduction_matrix = <<>> /\ lex_mat = <<>>
    /\ lows = <<>>
    /\ curr_x = 0 /\ curr_y = 0 /\ j = 0 /\ l = -1
    /\ changing_column = FALSE
    /\ at = 0 /\ current_index = 0
    /\ result = <<>> /\ orig = <<>> /\ lex0 = <<>>
    /\ appended = <<>> /\ moved = <<>>
    /\ should_continue = TRUE
    /\ perm = <<>> /\ mrep = <<>> /\ columns = <<>> /\ low_col = <<>>
    /\ U = <<>> /\ err = ""

\* _move_col(source, target)
move_within(src, tgt) ==
    /\ last.op = "build"
    /\ matrix' = move_col(matrix, src, tgt)
    /\ ret' = <<>>
    /\ last' = Call("move_col", tgt, src)
    /\ pre' = matrix
    /\ preIns' = inserts_since_last_prune
    /\ was' = mat
    /\ UNCHANGED <<inserts_since_last_prune, mat>>
    /\ IdleOfMoves

\* _move_col(column& col, idx) with col = column jj of the other store
move_in(jj, idx) ==
    /\ last.op = "build"
    /\ LET S == move_col_from([matrix |-> matrix,
                               inserts |-> inserts_since_last_prune],
                              mat.matrix[jj], idx)
       IN /\ matrix' = S.matrix
          /\ inserts_since_last_prune' = S.inserts
    /\ mat' = WithColumn(mat, jj, MovedOut, mat.inserts[jj])
    /\ ret' = <<>>
    /\ last' = Call("move_col_from", idx, jj)
    /\ pre' = matrix
    /\ preIns' = inserts_since_last_prune
    /\ was' = mat
    /\ IdleOfMoves

NextMoves ==
    \/ \E src \in ColsM, tgt \in ColsM : move_within(src, tgt)
    \/ \E jj \in 0..(NumColsOther - 1), idx \in ColsM : move_in(jj, idx)

SpecMoves == InitMoves /\ [][NextMoves]_vars

\* C23: move_col(src, dst) with src # dst leaves dst holding the former raw
\* content of src, leaves src empty and changes no other column;
\* move_col(src, src) leaves the matrix unchanged; moving a column in from
\* another matrix empties that matrix's source column and resets the insert
\* counter of dst to 0.
Thm_C23_MoveColFrame ==
    /\ (last.op = "move_col" /\ last.src # last.idx) =>
           /\ matrix[last.idx] = pre[last.src]
           /\ matrix[last.src] = <<>>
           /\ \A c \in ColsM \ {last.idx, last.src} : matrix[c] = pre[c]
    /\ (last.op = "move_col" /\ last.src = last.idx) =>
           /\ matrix = pre
           /\ inserts_since_last_prune = preIns
    /\ last.op = "move_col_from" =>
           /\ matrix[last.idx] = was.matrix[last.src]
           /\ mat.matrix[last.src] = <<>>
           /\ inserts_since_last_prune[last.idx] = 0
           /\ \A c \in ColsM \ {last.idx} : matrix[c] = pre[c]
           /\ \A c \in DOMAIN mat.matrix \ {last.src} :
                  mat.matrix[c] = was.matrix[c]

Wit_C23_MoveOverwritesTarget ==
    /\ last = Call("move_col", 2, 0)
    /\ pre[0] = <<1, 0>> /\ pre[1] = <<1>> /\ pre[2] = <<0, 0>>
    /\ matrix[0] = <<>> /\ matrix[1] = <<1>> /\ matrix[2] = <<1, 0>>

\* kernel_one_bigrade is between two columns: the processing of a column
\* has ended, or none has begun
BetweenColumns == pc = "col"

\* C24: at the end of processing each column in kernel_one_bigrade, for
\* every input column c whose slave column has not been moved into ker_lex,
\* M_original * slave[c] is the current content of input column c (mod 2),
\* and every column already in ker_lex is mapped to zero by M_original.
Thm_C24_SlaveRecordsReduction ==
    BetweenColumns =>
        /\ \A c \in DOMAIN orig :
               appended[c] = 0 =>
                   SumOf(orig, OddRows(reduction_matrix.matrix[c]))
                       = OddRows(mat.matrix[c])
        /\ \A k \in DOMAIN lex_mat.mat.matrix :
               SumOf(orig, OddRows(lex_mat.mat.matrix[k])) = {}

Wit_C24_ReducedColumnAndGenerator ==
    /\ BetweenColumns
    /\ \E c \in DOMAIN orig :
           /\ appended[c] = 0
           /\ Cardinality(OddRows(reduction_matrix.matrix[c])) >= 2
           /\ OddRows(mat.matrix[c]) # {}
           /\ OddRows(mat.matrix[c]) # orig[c]
    /\ \E k \in DOMAIN lex_mat.mat.matrix :
           Cardinality(OddRows(lex_mat.mat.matrix[k])) >= 2

\* the pivot of input column c as it is now
PivotNow(c) == MaxOf(OddRows(mat.matrix[c]))

\* C25: throughout kernel(), at the end of processing each column, for
\* every row r with lows[r] = c # -1 input column c is nonzero and its
\* pivot is r, although lows is shared by all bigrades and entries are
\* overwritten by smaller column indices.
Thm_C25_LowsNameCurrentPivots ==
    BetweenColumns =>
        \A r \in DOMAIN lows :
            lows[r] # -1 =>
                /\ OddRows(mat.matrix[lows[r]]) # {}
                /\ PivotNow(lows[r]) = r

\* lows[r] has been overwritten by a smaller column index, and a column has
\* changed its pivot
Wit_C25_EntryOverwrittenBySmallerColumn ==
    /\ BetweenColumns
    /\ \E r \in DOMAIN lows, c \in DOMAIN orig :
           /\ lows[r] # -1
           /\ lows[r] < c
           /\ MaxOf(orig[c]) = r
           /\ PivotNow(c) = r
           /\ BigradeOf(c)[2] < BigradeOf(lows[r])[2]
    /\ \E r \in DOMAIN lows :
           lows[r] # -1 /\ MaxOf(orig[lows[r]]) # r

\* the bigrade <<y, x>> of column k of the kernel returned
KerBigrade(k) ==
    CHOOSE b \in Range(ColexLoops(IndHeight(result.ind), IndWidth(result.ind))) :
        start_index(result.ind, b[1], b[2]) <= k /\ k <= result.ind[b[1]][b[2]]

\* bigrade a is less than or equal to bigrade b in both coordinates
BigradeLeq(a, b) == a[1] <= b[1] /\ a[2] <= b[2]

\* C26: every column of the returned kernel in the interval of bigrade
\* (x,y) has nonzero entries only at input columns of bigrade (x',y') with
\* x' <= x and y' <= y, and the kernel columns of bigrades <= (x,y) span the
\* kernel of the sub-matrix of the input columns of bigrade <= (x,y).
Thm_C26_KernelIsBigraded ==
    Returned =>
        /\ \A k \in DOMAIN K : \A c \in K[k] :
               BigradeLeq(BigradeOf(c), KerBigrade(k))
        /\ \A b \in Range(ColexLoops(IndHeight(ind), IndWidth(ind))) :
               LET below == {c \in DOMAIN orig : BigradeLeq(BigradeOf(c), b)}
                   gens == {k \in DOMAIN K : BigradeLeq(KerBigrade(k), b)}
               IN {v \in SUBSET below : SumOf(orig, v) = {}}
                      = {SumOf(K, S) : S \in SUBSET gens}

Wit_C26_GeneratorJoinsTwoBigrades ==
    /\ Returned
    /\ \E k \in DOMAIN K :
           /\ KerBigrade(k) = <<1, 1>>
           /\ \E c \in K[k] : BigradeOf(c) = <<0, 1>>
           /\ \E c \in K[k] : BigradeOf(c) = <<1, 0>>
    /\ \E k \in DOMAIN K : KerBigrade(k) = <<0, 0>>

\* C27: when kernel() returns, the input matrix has been reduced in place:
\* no two nonzero columns share a pivot, and every column is finalized (no
\* raw entry occurs twice).
Thm_C27_InputReducedAndFinalized ==
    Returned =>
        /\ \A a \in DOMAIN mat.matrix, b \in DOMAIN mat.matrix :
               (a # b /\ PivotNow(a) # -1) => PivotNow(a) # PivotNow(b)
        /\ \A c \in DOMAIN mat.matrix :
               NoDup(mat.matrix[c]) /\ IsHeap(mat.matrix[c])

Wit_C27_SharedPivotsReduced ==
    /\ Returned
    /\ \E a \in DOMAIN orig, b \in DOMAIN orig :
           a < b /\ orig[a] # {} /\ MaxOf(orig[a]) = MaxOf(orig[b])
             /\ PivotNow(b) # -1 /\ PivotNow(b) # MaxOf(orig[b])
    /\ \E c \in DOMAIN orig : orig[c] # {} /\ mat.matrix[c] = <<>>

\* U[c][jj] is set only for c <= jj, and every U[c][c] is set
UpperUnitriangular(rows) ==
    \A c \in DOMAIN rows :
        /\ c \in Range(rows[c])
        /\ \A jj \in Range(rows[c]) : c <= jj

\* C28: the U returned by decompose_RU is upper-triangular with ones on the
\* diagonal (U[c][jj] set only for c <= jj) and satisfies
\* M_original = M_reduced * U (mod 2).
Thm_C28_UIsUpperUnitriangular ==
    Decomposed =>
        /\ UpperUnitriangular(U)
        /\ \A c \in ColsP : Range(was.at.columns[c]) = ProductColumn(columns, U, c)

Wit_C28_OffDiagonalAfterEarlierCalls ==
    /\ Decomposed
    /\ ~WasFresh
    /\ \E c \in ColsP : \E jj \in Range(U[c]) : c < jj
    /\ \E c \in ColsP : columns[c] # was.at.columns[c]

\* the position of bigrade (x, y) in the order of the loops of kernel()
LexPosition(x, y) == x * IndHeight(ind) + y

\* the number of bigrades
NumBigrades == IndHeight(ind) * IndWidth(ind)

\* the steps one visit of a column can take: entering the while loop and one
\* pass for each value of l
StepsPerColumn == num_rows + 2

\* the steps one kernel_one_bigrade can take
StepsPerBigrade == (Width(mat) + 1) * StepsPerColumn

\* how far the call of kernel() has got
Progress ==
    CASE pc = "call" -> 0
      [] pc = "col" -> 1 + LexPosition(curr_x, curr_y) * StepsPerBigrade
                         + j * StepsPerColumn
      [] pc = "while" -> 1 + LexPosition(curr_x, curr_y) * StepsPerBigrade
                           + j * StepsPerColumn + 1 + (num_rows - 1 - l)
      [] pc = "convert" -> 1 + NumBigrades * StepsPerBigrade + at
      [] pc = "done" -> 3 + NumBigrades * StepsPerBigrade + NumBigrades

\* a pass of the while loop of kernel_one_bigrade
WhileIteration == pc = "while" /\ pc' = "while"

\* C29: kernel() terminates on every finite input: each iteration of the
\* reduction while-loop strictly decreases the pivot l of column j, l being
\* one of the num_rows row indices or -1, so a column undergoes at most
\* num_rows additions per visit, and the bigrades are visited one after the
\* other in lex order, each once; every step brings kernel() nearer to its return.
Thm_C29_KernelTerminates ==
    /\ [](pc = "while" => l \in -1..(num_rows - 1))
    /\ [](pc \in {"col", "while"} => LexPosition(curr_x, curr_y) < NumBigrades)
    /\ [][/\ WhileIteration => (j' = j /\ l' < l)
          /\ (pc \in {"col", "while"} /\ <<curr_x', curr_y'>> # <<curr_x, curr_y>>)
                => LexPosition(curr_x', curr_y') = LexPosition(curr_x, curr_y) + 1
          /\ (pc \in {"col", "while"} /\ pc' = "convert")
                => LexPosition(curr_x', curr_y') = NumBigrades
          /\ Progress < Progress'
          /\ Progress' <= 3 + NumBigrades * StepsPerBigrade + NumBigrades]_vars

Wit_C29_SecondAdditionInLastBigrade ==
    /\ pc = "while"
    /\ curr_x = IndWidth(ind) - 1 /\ curr_y = IndHeight(ind) - 1
    /\ Reducible(l, lows, j)
    /\ Cardinality(OddRows(reduction_matrix.matrix[j])) >= 2

\* C30 as stated: after any sequence of set_entry, heapify_col, add_to,
\* pivot, is_empty, remove_pivot and finalize calls with valid arguments,
\* every raw entry stored in a column is a row index in 0..num_rows-1; pivot
\* on a logically empty column adds nothing to the column's vector.
Orig_C30_RawEntriesAreRowIndices ==
    /\ \A c \in DOMAIN matrix : \A k \in DOMAIN matrix[c] : matrix[c][k] \in RowsH
    /\ (DOMAIN matrix # {} /\ last.op = "pivot" /\ OddRows(pre[last.idx]) = {})
           => Len(matrix[last.idx]) <= Len(pre[last.idx])

====
